---- MODULE Spec2Model ----
(***************************************************************************)
(* PromptVault / Promptitude: the multi-repository sync orchestration      *)
(* engine (SyncManager), its notification dialogs, provider resolution     *)
(* and file materialisation, as a state machine.                           *)
(*                                                                         *)
(* Strings that the code inspects character by character (URLs, remote     *)
(* paths, configuration entries) are sequences of tokens: every token      *)
(* stands for a run of characters ("github.com", "/", "|", ".md", ...),    *)
(* so that startsWith / endsWith / split / basename are computed on the    *)
(* sequence the way the code computes them on the string.                  *)
(*                                                                         *)
(* An async function is cut at its await points: one action per awaited    *)
(* operation, taken at the moment the awaited operation answers, together  *)
(* with the synchronous code that follows it up to the next await.         *)
(*                                                                         *)
(* The remote side is fixed per behaviour: which repositories answer the   *)
(* tree request, which files can be downloaded and what they hold. The     *)
(* local file system works. What the user answers to a dialog or types     *)
(* into an input box is chosen freely at every step.                       *)
(***************************************************************************)
EXTENDS Integers, Sequences, FiniteSets, TLC

\* ---------------------------------------------------------------- bounds
\* number of syncNow() invocations that may be in flight at once
MaxConcurrent == 2
\* total number of syncNow() invocations in one behaviour
MaxRuns == 2

\* the user edits the settings at most this many times
MaxConfigChanges == 1

\* number of entries of a repository tree given to the filter on its own
MaxTreeLen == 2

\* number of entries of the repositories setting read on its own
MaxEntries == 2

\* ------------------------------------------------------- token sequences
StartsWith(s, p) == Len(p) <= Len(s) /\ SubSeq(s, 1, Len(p)) = p

EndsWith(s, p) == Len(p) <= Len(s) /\ SubSeq(s, Len(s) - Len(p) + 1, Len(s)) = p

Contains(s, tok) == \E k \in 1..Len(s) : s[k] = tok

\* String.prototype.split(sep): the segments between occurrences of sep
Split(s, sep) ==
    LET segments(str, at) ==
            [i \in 1..(Cardinality(at) + 1) |->
                LET \* the separators that enclose segment i, or the ends of str
                    lo == IF i = 1 THEN 0
                          ELSE CHOOSE k \in at : Cardinality({m \in at : m < k}) = i - 2
                    hi == IF i = Cardinality(at) + 1 THEN Len(str) + 1
                          ELSE CHOOSE k \in at : Cardinality({m \in at : m < k}) = i - 1
                IN  SubSeq(str, lo + 1, hi - 1)]
    IN  CHOOSE segs \in {segments(str, {k \in 1..Len(str) : str[k] = sep}) : str \in {s}} : TRUE

\* String.prototype.trim(): blanks removed at both ends
RECURSIVE TrimLeft(_)
TrimLeft(s) == IF s # <<>> /\ s[1] = " " THEN TrimLeft(Tail(s)) ELSE s

RECURSIVE TrimRight(_)
TrimRight(s) == IF s # <<>> /\ s[Len(s)] = " " THEN TrimRight(SubSeq(s, 1, Len(s) - 1)) ELSE s

Trim(s) == TrimRight(TrimLeft(s))

\* s.replace(/\.git$/, '').replace(/\/$/, '')
StripGitAndSlash(s) ==
    LET a == IF EndsWith(s, <<".git">>) THEN SubSeq(s, 1, Len(s) - 1) ELSE s
    IN  IF EndsWith(a, <<"/">>) THEN SubSeq(a, 1, Len(a) - 1) ELSE a

\* path.basename: everything after the last "/"
getBasename(p) ==
    LET segs == Split(p, "/") IN segs[Len(segs)]

\* Array.from(new Set(list)): first occurrences, in order
RECURSIVE Unique(_)
Unique(list) ==
    IF list = <<>> THEN <<>>
    ELSE LET front == Unique(SubSeq(list, 1, Len(list) - 1))
             last  == list[Len(list)]
         IN  IF \E k \in 1..Len(front) : front[k] = last THEN front ELSE Append(front, last)

RECURSIVE SelectNonEmpty(_)
SelectNonEmpty(list) ==
    IF list = <<>> THEN <<>>
    ELSE IF list[1] = <<>> THEN SelectNonEmpty(Tail(list))
         ELSE <<list[1]>> \o SelectNonEmpty(Tail(list))

\* ------------------------------------------------------ provider resolver
\* the text that the host patterns of detectProvider look for inside a token
TextOf(tok) ==
    CASE tok = "github.com"           -> {"github.com"}
      [] tok = "dev.azure.com"        -> {"dev.azure.com"}
      [] tok = "org.visualstudio.com" -> {".visualstudio.com"}
      [] tok = "org.visualstudio.com.example.org" -> {".visualstudio.com"}
      [] tok = "gitlab.com"           -> {"gitlab.com", "gitlab."}
      [] tok = "bitbucket.org"        -> {"bitbucket.org"}
      [] OTHER                        -> {}

Mentions(url, text) == \E k \in 1..Len(url) : text \in TextOf(url[k])

\* a resolver that knows three tags only
detectProviderThreeTags(url) ==
    LET cleanUrl == StripGitAndSlash(url)
    IN  IF Mentions(cleanUrl, "github.com") THEN "github"
        ELSE IF Mentions(cleanUrl, "dev.azure.com") \/ Mentions(cleanUrl, ".visualstudio.com") THEN "azure"
        ELSE "unknown"

detectProvider(url) ==
    LET tagOf(cleanUrl) ==
            IF Mentions(cleanUrl, "github.com") THEN "github"
            ELSE IF Mentions(cleanUrl, "dev.azure.com") \/ Mentions(cleanUrl, ".visualstudio.com") THEN "azure"
            ELSE IF Mentions(cleanUrl, "gitlab.com") \/ Mentions(cleanUrl, "gitlab.") THEN "gitlab"
            ELSE IF Mentions(cleanUrl, "bitbucket.org") THEN "bitbucket"
            ELSE "unknown"
    IN  CHOOSE provider \in {tagOf(cleanUrl) : cleanUrl \in {StripGitAndSlash(url)}} : TRUE

\* GitProviderFactory.createFromUrl: the provider it builds, or the error it throws
createFromUrl(url, hasContext) ==
    LET provider == detectProvider(url)
    IN  CASE provider = "github"    -> [ok |-> TRUE, provider |-> "github", error |-> "none"]
          [] provider = "azure"     ->
                IF hasContext THEN [ok |-> TRUE, provider |-> "azure", error |-> "none"]
                ELSE [ok |-> FALSE, provider |-> "azure", error |-> "Extension context is required"]
          [] provider = "gitlab"    -> [ok |-> FALSE, provider |-> provider, error |-> "GitLab support is not implemented yet"]
          [] provider = "bitbucket" -> [ok |-> FALSE, provider |-> provider, error |-> "Bitbucket support is not implemented yet"]
          [] OTHER                  -> [ok |-> FALSE, provider |-> provider, error |-> "Unsupported Git provider for URL"]

getProviderName(provider) == provider

\* index of the first token equal to tok, 0 when there is none
IndexOf(s, tok) ==
    IF Contains(s, tok) THEN CHOOSE k \in 1..Len(s) : s[k] = tok /\ \A m \in 1..(k - 1) : s[m] # tok
    ELSE 0

\* GitHubApiManager.parseRepositoryUrl: github.com/<owner>/<repo>, with an
\* optional ".git" or one trailing "/"
parseGitHubUrl(url) ==
    LET k    == IndexOf(url, "github.com")
        rest == IF k = 0 THEN <<>> ELSE SubSeq(url, k + 1, Len(url))
        segs == Split(rest, "/")
        good == /\ k > 0
                /\ Len(segs) \in {3, 4}
                /\ segs[1] = <<>>
                /\ segs[2] # <<>>
                /\ segs[3] # <<>>
                /\ Len(segs) = 4 => segs[4] = <<>>
    IN  IF good
        THEN [ok |-> TRUE, owner |-> segs[2],
              repo |-> IF EndsWith(segs[3], <<".git">>) THEN SubSeq(segs[3], 1, Len(segs[3]) - 1) ELSE segs[3]]
        ELSE [ok |-> FALSE, owner |-> <<>>, repo |-> <<>>]

\* AzureDevOpsApiManager.parseRepositoryUrl: the two URL forms; organization,
\* project and base URL are packed into owner with "|" between them
parseAzureUrl(url) ==
    LET \* what follows "https://"; nothing when the scheme is missing, and
        \* then no pattern matches
        afterScheme(cleanUrl) ==
            LET k == IndexOf(cleanUrl, "https://")
            IN  IF k = 0 THEN <<>> ELSE SubSeq(cleanUrl, k + 1, Len(cleanUrl))
        match(segs) ==
            LET shape  == /\ Len(segs) >= 4
                          /\ segs[2] # <<>>
                          /\ segs[3] # <<>>
                modern == /\ shape
                          /\ Len(segs) >= 5
                          /\ segs[1] = <<"dev.azure.com">>
                          /\ segs[4] = <<"_git">>
                          /\ segs[5] # <<>>
                legacy == /\ shape
                          /\ segs[1] = <<"org.visualstudio.com">>
                          /\ segs[3] = <<"_git">>
                          /\ segs[4] # <<>>
            IN  IF modern
                THEN [ok |-> TRUE, repo |-> segs[5],
                      owner |-> segs[2] \o <<"|">> \o segs[3] \o <<"|">> \o <<"https://", "dev.azure.com">>]
                ELSE IF legacy
                THEN [ok |-> TRUE, repo |-> segs[4],
                      owner |-> <<"org">> \o <<"|">> \o segs[2] \o <<"|">> \o <<"https://", "org.visualstudio.com">>]
                ELSE [ok |-> FALSE, owner |-> <<>>, repo |-> <<>>]
    IN  CHOOSE parsed \in {match(segs) : segs \in {Split(rest, "/") : rest \in
                               {afterScheme(cleanUrl) : cleanUrl \in {StripGitAndSlash(url)}}}} : TRUE

parseRepositoryUrl(provider, url) ==
    IF provider = "azure" THEN parseAzureUrl(url) ELSE parseGitHubUrl(url)

\* a parseOwnerInfo that takes the first three parts, however many there are
parseOwnerInfoFirstThree(owner) ==
    LET parts == Split(owner, "|")
    IN  IF Len(parts) < 3
        THEN [ok |-> FALSE, organization |-> <<>>, project |-> <<>>, baseUrl |-> <<>>]
        ELSE [ok |-> TRUE, organization |-> parts[1], project |-> parts[2], baseUrl |-> parts[3]]

\* AzureDevOpsApiManager.parseOwnerInfo
parseOwnerInfo(owner) ==
    LET parts == Split(owner, "|")
    IN  IF Len(parts) # 3
        THEN [ok |-> FALSE, organization |-> <<>>, project |-> <<>>, baseUrl |-> <<>>]
        ELSE [ok |-> TRUE, organization |-> parts[1], project |-> parts[2], baseUrl |-> parts[3]]

\* ------------------------------------------------------------ configuration
\* ConfigManager.repositories: entries trimmed, empty ones dropped, duplicates removed
repositories(raw) ==
    CHOOSE list \in {Unique(kept) : kept \in {SelectNonEmpty(trimmed) : trimmed \in
                         {[k \in 1..Len(raw) |-> Trim(raw[k])]}}} : TRUE

\* a parser that keeps the blanks around the branch
repositoryConfigsUntrimmed(raw) ==
    LET list == repositories(raw)
    IN  [k \in 1..Len(list) |->
            LET parts == Split(list[k], "|")
            IN  [url |-> parts[1],
                 branch |-> IF Len(parts) >= 2 /\ parts[2] # <<>> THEN parts[2] ELSE <<"main">>]]

\* ConfigManager.repositoryConfigs: "<url>" or "<url>|<branch>", branch "main" by default
repositoryConfigs(raw) ==
    LET list == repositories(raw)
    IN  [k \in 1..Len(list) |->
            LET parts  == Split(list[k], "|")
                branch == IF Len(parts) >= 2 THEN Trim(parts[2]) ELSE <<>>
            IN  [url |-> parts[1], branch |-> IF branch # <<>> THEN branch ELSE <<"main">>]]

\* ConfigManager.getUsedProviders
getUsedProviders(raw) ==
    LET urlsOf(list) == {Split(list[k], "|")[1] : k \in 1..Len(list)}
    IN  UNION {{detectProvider(url) : url \in urlsOf(list)} : list \in {repositories(raw)}} \ {"unknown"}

\* ConfigManager.SYNC_FREQUENCIES, in milliseconds
SYNC_FREQUENCIES(frequency) ==
    CASE frequency = "startup" -> 0
      [] frequency = "hourly"  -> 60 * 60 * 1000
      [] frequency = "daily"   -> 24 * 60 * 60 * 1000
      [] frequency = "weekly"  -> 7 * 24 * 60 * 60 * 1000
      [] frequency = "manual"  -> -1

REPO_SYNC_CHAT_MODE_PATH == <<"prompts", "/", "chatmode", "/">>

REPO_SYNC_INSTRUCTIONS_PATH == <<"prompts", "/", "instructions", "/">>

REPO_SYNC_PROMPT_PATH == <<"prompts", "/", "prompt", "/">>

\* --------------------------------------------------------------- tree filter
\* path.replace(/\\/g, '/')
BackslashesToSlashes(p) == [k \in 1..Len(p) |-> IF p[k] = "\\" THEN "/" ELSE p[k]]

\* path.replace(/^\/+/, '')
RECURSIVE StripLeadingSlashes(_)
StripLeadingSlashes(p) == IF p # <<>> /\ p[1] = "/" THEN StripLeadingSlashes(Tail(p)) ELSE p

NormalizePath(p) == StripLeadingSlashes(BackslashesToSlashes(p))

allowedPaths(cfg) ==
    (IF cfg.syncChatmode THEN <<REPO_SYNC_CHAT_MODE_PATH>> ELSE <<>>)
    \o (IF cfg.syncInstructions THEN <<REPO_SYNC_INSTRUCTIONS_PATH>> ELSE <<>>)
    \o (IF cfg.syncPrompt THEN <<REPO_SYNC_PROMPT_PATH>> ELSE <<>>)

\* a filter that compares the path as the remote spelled it
isRelevantItemRaw(cfg, item) ==
    LET allowed == allowedPaths(cfg)
    IN  /\ item.type = "blob"
        /\ \E k \in 1..Len(allowed) : StartsWith(item.path, allowed[k])
        /\ (EndsWith(item.path, <<".md">>) \/ EndsWith(item.path, <<".txt">>))

isRelevantItem(cfg, item) ==
    LET allowed        == allowedPaths(cfg)
        isBlob         == item.type = "blob"
        normalizedPath == NormalizePath(item.path)
        matchesPath    == \E k \in 1..Len(allowed) : StartsWith(normalizedPath, NormalizePath(allowed[k]))
        isRelevantFile == EndsWith(item.path, <<".md">>) \/ EndsWith(item.path, <<".txt">>)
    IN  isBlob /\ matchesPath /\ isRelevantFile

RECURSIVE FilterItems(_, _)
FilterItems(cfg, tree) ==
    IF tree = <<>> THEN <<>>
    ELSE IF isRelevantItem(cfg, tree[1]) THEN <<tree[1]>> \o FilterItems(cfg, Tail(tree))
         ELSE FilterItems(cfg, Tail(tree))

filterRelevantFiles(cfg, tree) ==
    IF allowedPaths(cfg) = <<>> THEN <<>> ELSE FilterItems(cfg, tree)

\* ------------------------------------------------- remote repositories used
GH1 == <<"https://", "github.com", "/", "a", "/", "b">>

GH2 == <<"https://", "github.com", "/", "c", "/", "d">>

AZ1 == <<"https://", "dev.azure.com", "/", "org", "/", "proj", "/", "_git", "/", "c">>

UNK == <<"https://", "example.org", "/", "x", "/", "y">>

GH3 == <<"https://", "github.com", "/", "e", "/", "f">>

GH4 == <<"https://", "github.com", "/", "g", "/", "h">>

\* a GitHub repository whose first file cannot be written locally
GH5 == <<"https://", "github.com", "/", "a", "/", "f">>

Blob(path) == [path |-> path, type |-> "blob"]

Dir(path) == [path |-> path, type |-> "tree"]

ChatX == <<"prompts", "/", "chatmode", "/", "x", ".md">>

PromptX == <<"prompts", "/", "prompt", "/", "x", ".md">>

ChatW == <<"prompts", "/", "chatmode", "/", "w", ".md">>

ChatV == <<"/", "prompts", "/", "chatmode", "/", "v", ".md">>

OtherY == <<"prompts", "/", "other", "/", "y", ".md">>

ChatR == <<"prompts", "/", "chatmode", "/", "r", ".md">>

ChatE == <<"prompts", "/", "chatmode", "/", "e", ".md">>

ChatU == <<"prompts", "/", "chatmode", "/", "u", ".md">>

\* what the remote holds: the tree of a repository at a branch
RemoteItems(url, branch) ==
    CASE url = GH1 -> <<Dir(<<"prompts", "/", "chatmode">>), Blob(ChatX), Blob(OtherY)>>
                     \o (IF branch = <<"dev">> THEN <<Blob(ChatR)>> ELSE <<>>)
      [] url = GH2 -> <<Blob(PromptX), Blob(ChatW)>>
      [] url = AZ1 -> <<Dir(<<"/", "prompts">>), Blob(ChatV)>>
      [] url = GH4 -> <<Blob(ChatE), Blob(ChatU), Blob(ChatX)>>
      [] url = GH5 -> <<Blob(ChatR), Blob(ChatX)>>
      [] OTHER     -> <<>>

\* the content of a remote file; "" is an empty file
RemoteContent(url, branch, path) ==
    CASE url = GH1 /\ path = ChatX   -> IF branch = <<"dev">> THEN "B" ELSE "A"
      [] url = GH1 /\ path = ChatR   -> "R"
      [] url = GH2 /\ path = PromptX -> "B"
      [] url = GH2 /\ path = ChatW   -> "C"
      [] url = GH4 /\ path = ChatU   -> "U"
      [] url = GH4 /\ path = ChatX   -> "A"
      [] url = GH5 /\ path = ChatR   -> "R"
      [] url = GH5 /\ path = ChatX   -> "A"
      [] OTHER                       -> ""

\* the remote does not answer the tree request of this repository
TreeFails(url, branch) == url = GH3

\* the remote does not deliver this file
ContentFails(url, branch, path) == url = GH2 /\ branch = <<"dev">> /\ path = PromptX

\* the local file of this name cannot be written: writeFileContent throws
WriteFails(name) == name = <<"r", ".md">>

\* the local file of this name exists but cannot be read: readFileContent throws
ReadFails(name) == name = <<"u", ".md">>

NoFile == "<absent>"

FileNames == {<<"x", ".md">>, <<"w", ".md">>, <<"v", ".md">>, <<"r", ".md">>,
              <<"keep", ".md">>, <<"u", ".md">>, <<"e", ".md">>}

\* the configurations and credentials a behaviour starts from
DefaultConfig ==
    [enabled |-> TRUE, frequency |-> "daily", syncOnStartup |-> TRUE, showNotifications |-> TRUE,
     syncChatmode |-> TRUE, syncInstructions |-> FALSE, syncPrompt |-> TRUE,
     repositories |-> <<>>]

\* three repositories; the second does not answer the tree request, the first
\* and the third both hold an x.md
ThreeRepositories ==
    [DefaultConfig EXCEPT !.repositories = <<GH2, GH3, GH1>>, !.frequency = "manual",
                          !.syncOnStartup = FALSE]

\* one GitHub repository at branch dev, synced on startup and every hour
GitHubAtDev ==
    [DefaultConfig EXCEPT !.repositories = <<GH1 \o <<"|", "dev">>>>, !.frequency = "hourly"]

\* one GitHub repository at the default branch
GitHubOnly ==
    [DefaultConfig EXCEPT !.repositories = <<GH1>>, !.frequency = "manual",
                          !.syncOnStartup = FALSE]

\* a repository whose first matching file cannot be downloaded
BrokenDownload ==
    [DefaultConfig EXCEPT !.repositories = <<GH2 \o <<"|", "dev">>>>, !.frequency = "manual",
                          !.syncOnStartup = FALSE]

\* an Azure DevOps repository, then one of an unsupported host
AzureThenUnknown ==
    [DefaultConfig EXCEPT !.repositories = <<AZ1, UNK>>, !.frequency = "manual",
                          !.syncOnStartup = FALSE]

\* an entry of the repositories setting that is not a string: (r ?? '').trim()
\* throws a TypeError on it
NotAString == <<"<number>">>

\* the repositories setting holds a number where a URL is expected
MalformedSetting ==
    [DefaultConfig EXCEPT !.repositories = <<GH1, NotAString>>, !.frequency = "hourly",
                          !.syncOnStartup = FALSE]

\* two repositories with matching files, and no file type selected
AllTypesOff ==
    [DefaultConfig EXCEPT !.repositories = <<GH1, GH2>>, !.frequency = "daily",
                          !.syncOnStartup = FALSE, !.syncChatmode = FALSE,
                          !.syncPrompt = FALSE]

\* a GitHub repository, then one of an unsupported host, synced every week
GitHubThenUnknown ==
    [DefaultConfig EXCEPT !.repositories = <<GH1 \o <<"|", "dev">>, UNK>>,
                          !.frequency = "weekly", !.syncOnStartup = FALSE]

\* every schedule the settings can express, with no repository configured
Schedules ==
    { [DefaultConfig EXCEPT !.frequency = frequency, !.enabled = enabled,
                          !.syncOnStartup = syncOnStartup] :
        frequency \in {"startup", "hourly", "daily", "weekly", "manual"},
        enabled \in BOOLEAN, syncOnStartup \in BOOLEAN }

\* the settings are edited in the behaviours that start from a schedule
Scenarios ==
    { [config |-> ThreeRepositories, session |-> TRUE,  pats |-> <<>>, edited |-> FALSE],
      [config |-> GitHubAtDev,       session |-> TRUE,  pats |-> <<>>, edited |-> FALSE],
      [config |-> GitHubOnly,        session |-> FALSE, pats |-> <<>>, edited |-> FALSE],
      [config |-> BrokenDownload,    session |-> TRUE,  pats |-> <<>>, edited |-> FALSE],
      [config |-> AzureThenUnknown,  session |-> TRUE,  pats |-> <<>>, edited |-> FALSE],
      [config |-> AzureThenUnknown,  session |-> TRUE,  pats |-> <<"bad">>, edited |-> FALSE],
      [config |-> MalformedSetting,  session |-> TRUE,  pats |-> <<>>, edited |-> FALSE],
      [config |-> AllTypesOff,       session |-> TRUE,  pats |-> <<>>, edited |-> FALSE],
      [config |-> GitHubThenUnknown, session |-> TRUE,  pats |-> <<>>, edited |-> FALSE] }
    \cup { [config |-> c, session |-> TRUE, pats |-> <<>>, edited |-> TRUE] : c \in Schedules }

\* ------------------------------------------------------------------- state
VARIABLES
    config,        \* the promptitude configuration
    files,         \* the prompts directory: file name -> content, or NoFile
    ghSession,     \* a GitHub authentication session exists
    pats,          \* stored Azure DevOps PATs, "good" or "bad" for the organization
    initialized,   \* SyncManager.initialize has run (context is set)
    timer,         \* SyncManager.timer: null, or the handle of the timer armed last
    pending,       \* the scheduler timers armed and neither fired nor cancelled
    startupTimer,  \* the 2 s startup-delay callback is pending
    status,        \* StatusBarManager.currentStatus
    gitProviders,  \* SyncManager.gitProviders: repository URL -> provider instance
                   \* (its kind and its identity)
    patCache,      \* the stored PAT cache: Azure DevOps organization -> position of
                   \* the PAT that validated for it last
    inv,           \* the syncNow() invocations in flight, one per slot
    runs,          \* number of syncNow() invocations so far
    errorDialogs,  \* open "Failed to sync prompts" dialogs that syncFiles did not await
    queuedSyncs,   \* promptitude.syncNow commands issued by a dialog, not yet started
    lastRun,       \* what is known of the latest finished invocation
    changesLeft,   \* how many more times the user edits the settings
    hist           \* history: how syncNow() was called last, what it returned,
                   \* what armed the schedule last, how many provider
                   \* instances createFromUrl has built, and whether
                   \* dispose() was called

vars == <<config, files, ghSession, pats, initialized, timer, pending, startupTimer, status,
          gitProviders, patCache, inv, runs, errorDialogs, queuedSyncs, lastRun, changesLeft, hist>>

Slots == 1..MaxConcurrent

\* this.timer = null
null == 0

\* no syncNow() has returned yet
NoResult == [via |-> "none", success |-> FALSE, itemsUpdated |-> 0, error |-> <<>>]

NoProviders == [u \in {} |-> "none"]

\* getCache with nothing stored: {}
NoCache == [o \in {} |-> 0]

\* a free slot: no invocation
IdleSlot ==
    [pc |-> "idle", repoConfigs |-> <<>>, i |-> 0, results |-> <<>>, totalItemsUpdated |-> 0,
     errors |-> <<>>, caught |-> <<>>, provider |-> "none", gitApi |-> 0, relevantFiles |-> <<>>, j |-> 0, itemsUpdated |-> 0,
     content |-> "", overallSuccess |-> FALSE, successCount |-> 0,
     \* history, not program state: the notifications shown, the provider and
     \* dialog calls made for the current repository, how many files the filter
     \* kept per repository, the repositories getFileContent was called for,
     \* the files materialised, the repositories whose
     \* download threw, whether the run was free of overlap and of refused
     \* authentication (pure), whether it followed such a run, and the
     \* directory as it was when the run started
     shown |-> <<>>, log |-> <<>>, filtered |-> {}, fetched |-> {}, got |-> {}, fetchThrew |-> {}, pure |-> TRUE, follows |-> FALSE,
     startFiles |-> <<>>]

Active(s) == inv[s].pc # "idle"

Init ==
    /\ files = [n \in FileNames |-> IF n = <<"keep", ".md">> THEN "L" ELSE NoFile]
    /\ \E scenario \in Scenarios :
          /\ config = scenario.config
          /\ ghSession = scenario.session
          /\ pats = scenario.pats
          /\ changesLeft = IF scenario.edited THEN MaxConfigChanges ELSE 0
    /\ initialized = FALSE
    /\ timer = null
    /\ pending = {}
    /\ startupTimer = 0
    /\ status = "idle"
    /\ gitProviders = NoProviders
    /\ patCache = NoCache
    /\ inv = [s \in Slots |-> IdleSlot]
    /\ runs = 0
    /\ errorDialogs = 0
    /\ queuedSyncs = 0
    /\ lastRun = [finished |-> FALSE, pure |-> FALSE]
    /\ hist = [returned |-> NoResult, trigger |-> "none",
               atInit |-> [enabled |-> FALSE, syncOnStartup |-> FALSE],
               startupSyncs |-> 0, returns |-> 0, escaped |-> FALSE, paused |-> FALSE,
               scheduled |-> [by |-> "none", before |-> {}],
               created |-> 0, disposed |-> FALSE]

\* ---------------------------------------------------------------- scheduler
\* ConfigManager.getSyncInterval
getSyncInterval(cfg) == SYNC_FREQUENCIES(cfg.frequency)

\* clearTimeout: the timer of that handle, if still pending, is cancelled
clearTimeout(timers, handle) == {t \in timers : t.id # handle}

\* setTimeout returns a handle that no pending timer has, and that differs
\* from the handle held before
NewHandle(timers, handle) ==
    CHOOSE id \in 1..(Cardinality(timers) + 2) : id # handle /\ \A t \in timers : t.id # id

\* a scheduler that arms without cancelling the timer it armed before
scheduleNextSyncKeepingTimer(cfg, handle, timers) ==
    IF cfg.enabled /\ getSyncInterval(cfg) > 0
    THEN [timer   |-> NewHandle(timers, handle),
          pending |-> timers \cup {[id       |-> NewHandle(timers, handle),
                                    interval |-> getSyncInterval(cfg)]}]
    ELSE [timer |-> handle, pending |-> timers]

\* a scheduler that cancels and never arms
scheduleNextSyncNeverArms(cfg, handle, timers) ==
    [timer |-> null, pending |-> clearTimeout(timers, handle)]

\* SyncManager.scheduleNextSync, from the handle and the pending timers before
\* the call to the handle and the pending timers after it
scheduleNextSync(cfg, handle, timers) ==
    LET cleared  == IF handle # null THEN clearTimeout(timers, handle) ELSE timers
        interval == getSyncInterval(cfg)
    IN  IF ~cfg.enabled THEN [timer |-> null, pending |-> cleared]
        ELSE IF interval <= 0 THEN [timer |-> null, pending |-> cleared]
        ELSE [timer   |-> NewHandle(cleared, handle),
              pending |-> cleared \cup {[id |-> NewHandle(cleared, handle), interval |-> interval]}]

\* an initial sync that is skipped when the frequency is manual
startupSyncWantedUnlessManual(cfg) ==
    cfg.enabled /\ cfg.syncOnStartup /\ cfg.frequency # "manual"

\* initialize: whether the initial sync is set up
startupSyncWanted(cfg) == cfg.enabled /\ cfg.syncOnStartup

\* SyncManager.initialize, called once by the activation of the extension
Initialize ==
    /\ ~initialized
    /\ ~hist.disposed
    /\ initialized' = TRUE
    /\ startupTimer' = IF startupSyncWanted(config) THEN startupTimer + 1 ELSE startupTimer
    /\ timer' = scheduleNextSync(config, timer, pending).timer
    /\ pending' = scheduleNextSync(config, timer, pending).pending
    /\ hist' = [hist EXCEPT !.atInit = [enabled       |-> config.enabled,
                                        syncOnStartup |-> config.syncOnStartup]]
    /\ UNCHANGED <<config, files, ghSession, pats, status, gitProviders, patCache, inv, runs,
                   errorDialogs, queuedSyncs, lastRun, changesLeft>>

\* ------------------------------------------------------------ syncNow entry
\* the lowest free slot takes the next invocation
FreeSlot(s) == ~Active(s) /\ \A t \in Slots : t < s => Active(t)

NoOtherActive == \A t \in Slots : ~Active(t)

\* ConfigManager.repositories throws
repositoriesThrows(raw) == \E k \in 1..Len(raw) : raw[k] = NotAString

TrimIsNotAFunction == <<"(intermediate value).trim is not a function">>

\* the three outcome notifications of NotificationManager, as what is shown
showSyncSuccess(itemsCount) ==
    [kind |-> "success", itemsCount |-> itemsCount, successCount |-> 0, totalCount |-> 0,
     errors |-> <<>>, message |-> <<>>]

showPartialSyncSuccess(itemsCount, successCount, totalCount, errors) ==
    [kind |-> "partial", itemsCount |-> itemsCount, successCount |-> successCount,
     totalCount |-> totalCount, errors |-> errors, message |-> <<>>]

showSyncError(message) ==
    [kind |-> "failure", itemsCount |-> 0, successCount |-> 0, totalCount |-> 0,
     errors |-> <<>>, message |-> message]

\* what syncNow() returns
Result(via, success, itemsUpdated, error) ==
    [via |-> via, success |-> success, itemsUpdated |-> itemsUpdated, error |-> error]

\* syncNow() is called: who called, and the result at once when sync is disabled
Called(trigger) ==
    [hist EXCEPT !.trigger = trigger,
                 !.startupSyncs = IF trigger = "startup" THEN @ + 1 ELSE @,
                 !.escaped = IF trigger \in {"manual", "command"} THEN FALSE ELSE @,
                 !.returned = IF ~config.enabled
                              THEN Result("disabled", FALSE, 0, <<"Sync disabled">>)
                              ELSE @,
                 !.returns = IF ~config.enabled THEN @ + 1 ELSE @]

\* a syncNow that sets the status bar before it looks at the enabled setting
syncNowBeginStatusFirst(s) ==
    IF ~config.enabled
    THEN status' = "syncing" /\ UNCHANGED inv
    ELSE IF repositoriesThrows(config.repositories)
    THEN \* the exception reaches the catch of syncNow
         /\ status' = "error"
         /\ inv' = [t \in Slots |->
                       IF t = s
                       THEN [IdleSlot EXCEPT !.pc = "caught", !.caught = TrimIsNotAFunction,
                                             !.shown = <<showSyncError(TrimIsNotAFunction)>>,
                                             !.pure = FALSE]
                       ELSE IF Active(t) THEN [inv[t] EXCEPT !.pure = FALSE] ELSE inv[t]]
    ELSE /\ status' = "syncing"
         /\ inv' = [t \in Slots |->
                       IF t = s
                       THEN [IdleSlot EXCEPT !.pc = "loop",
                                             !.repoConfigs = repositoryConfigs(config.repositories),
                                             !.i = 1,
                                             !.pure = NoOtherActive,
                                             !.follows = /\ NoOtherActive
                                                         /\ lastRun.finished
                                                         /\ lastRun.pure,
                                             !.startFiles = files]
                       ELSE IF Active(t) THEN [inv[t] EXCEPT !.pure = FALSE] ELSE inv[t]]

\* SyncManager.syncNow up to its first await: the enabled check, the status
\* bar, and the configuration reads of syncNow and syncMultipleRepositories
syncNowBegin(s) ==
    IF ~config.enabled
    THEN UNCHANGED <<status, inv>>
    ELSE IF repositoriesThrows(config.repositories)
    THEN \* the exception reaches the catch of syncNow
         /\ status' = "error"
         /\ inv' = [t \in Slots |->
                       IF t = s
                       THEN [IdleSlot EXCEPT !.pc = "caught", !.caught = TrimIsNotAFunction,
                                             !.shown = <<showSyncError(TrimIsNotAFunction)>>,
                                             !.pure = FALSE]
                       ELSE IF Active(t) THEN [inv[t] EXCEPT !.pure = FALSE] ELSE inv[t]]
    ELSE /\ status' = "syncing"
         /\ inv' = [t \in Slots |->
                       IF t = s
                       THEN [IdleSlot EXCEPT !.pc = "loop",
                                             !.repoConfigs = repositoryConfigs(config.repositories),
                                             !.i = 1,
                                             !.pure = NoOtherActive,
                                             !.follows = /\ NoOtherActive
                                                         /\ lastRun.finished
                                                         /\ lastRun.pure,
                                             !.startFiles = files]
                       ELSE IF Active(t) THEN [inv[t] EXCEPT !.pure = FALSE] ELSE inv[t]]

\* the promptitude.syncNow command, run by the user
ManualSync ==
    /\ initialized
    /\ runs + queuedSyncs < MaxRuns
    /\ \E s \in Slots : FreeSlot(s) /\ syncNowBegin(s)
    /\ runs' = runs + 1
    /\ hist' = Called("manual")
    /\ UNCHANGED <<config, files, ghSession, pats, initialized, timer, pending, startupTimer,
                   gitProviders, patCache, errorDialogs, queuedSyncs, lastRun, changesLeft>>

\* the setTimeout(() => this.syncNow(), 2000) of initialize fires
StartupSync ==
    /\ startupTimer > 0
    /\ runs + queuedSyncs < MaxRuns
    /\ \E s \in Slots : FreeSlot(s) /\ syncNowBegin(s)
    /\ startupTimer' = startupTimer - 1
    /\ runs' = runs + 1
    /\ hist' = Called("startup")
    /\ UNCHANGED <<config, files, ghSession, pats, initialized, timer, pending,
                   gitProviders, patCache, errorDialogs, queuedSyncs, lastRun, changesLeft>>

\* a one-shot timer of scheduleNextSync fires; this.timer keeps the handle
TimerSync ==
    /\ runs + queuedSyncs < MaxRuns
    /\ \E t \in pending : pending' = pending \ {t}
    /\ \E s \in Slots : FreeSlot(s) /\ syncNowBegin(s)
    /\ runs' = runs + 1
    /\ hist' = [Called("timer") EXCEPT !.scheduled = [by |-> "none", before |-> {}]]
    /\ UNCHANGED <<config, files, ghSession, pats, initialized, timer, startupTimer,
                   gitProviders, patCache, errorDialogs, queuedSyncs, lastRun, changesLeft>>

\* a promptitude.syncNow command issued by a dialog's Retry button starts
CommandSync ==
    /\ queuedSyncs > 0
    /\ \E s \in Slots : FreeSlot(s) /\ syncNowBegin(s)
    /\ queuedSyncs' = queuedSyncs - 1
    /\ runs' = runs + 1
    /\ hist' = Called("command")
    /\ UNCHANGED <<config, files, ghSession, pats, initialized, timer, pending, startupTimer,
                   gitProviders, patCache, errorDialogs, lastRun, changesLeft>>

\* the settings that decide the schedule
Frequencies == {"startup", "hourly", "daily", "weekly", "manual"}

\* a listener that leaves the schedule as it is
onConfigurationChangedIgnored(cfg, handle, timers) == [timer |-> handle, pending |-> timers]

\* the listener registered by initialize: scheduleNextSync()
onConfigurationChanged(cfg, handle, timers) == scheduleNextSync(cfg, handle, timers)

\* the user edits the promptitude settings (the edit may leave frequency and
\* enabled as they were); once initialize has registered the listener,
\* onConfigurationChanged runs scheduleNextSync
ConfigChanged ==
    /\ changesLeft > 0
    /\ changesLeft' = changesLeft - 1
    /\ \E frequency \in Frequencies, enabled \in BOOLEAN :
          /\ config' = [config EXCEPT !.frequency = frequency, !.enabled = enabled]
    /\ IF initialized
       THEN /\ timer' = onConfigurationChanged(config', timer, pending).timer
            /\ pending' = onConfigurationChanged(config', timer, pending).pending
            /\ hist' = [hist EXCEPT !.paused = FALSE, !.escaped = FALSE,
                                    \* the handler ran last, on these timers
                                    !.scheduled = [by |-> "change", before |-> pending]]
       ELSE UNCHANGED <<timer, pending, hist>>
    /\ UNCHANGED <<files, ghSession, pats, initialized, startupTimer, status, gitProviders, patCache,
                   inv, runs, errorDialogs, queuedSyncs, lastRun>>

\* NotificationManager.showSyncError, the dialog syncFiles leaves open: Retry
DialogRetry ==
    /\ errorDialogs > 0
    /\ runs + queuedSyncs < MaxRuns
    /\ errorDialogs' = errorDialogs - 1
    /\ queuedSyncs' = queuedSyncs + 1
    /\ UNCHANGED <<config, files, ghSession, pats, initialized, timer, pending, startupTimer,
                   status, gitProviders, patCache, inv, runs, lastRun, changesLeft, hist>>

\* the same dialog closed, or Show Logs
DialogDismiss ==
    /\ errorDialogs > 0
    /\ errorDialogs' = errorDialogs - 1
    /\ UNCHANGED <<config, files, ghSession, pats, initialized, timer, pending, startupTimer,
                   status, gitProviders, patCache, inv, runs, queuedSyncs, lastRun, changesLeft, hist>>

\* ------------------------------------------------- the per-repository loop
CurrentUrl(r) == r.repoConfigs[r.i].url

CurrentBranch(r) == r.repoConfigs[r.i].branch

ResetRepoLocals(r) ==
    [r EXCEPT !.provider = "none", !.gitApi = 0, !.relevantFiles = <<>>, !.j = 0,
              !.itemsUpdated = 0, !.content = ""]

\* a catch block that gives up on the repositories that follow
FailRepoAborts(r, error, short) ==
    [ResetRepoLocals(r) EXCEPT
        !.results = Append(@, [repository |-> CurrentUrl(r), success |-> FALSE,
                               itemsUpdated |-> 0, error |-> error]),
        !.errors  = Append(@, [repository |-> CurrentUrl(r), message |-> short]),
        !.i       = Len(r.repoConfigs) + 1,
        !.pc      = "loop"]

\* a catch block that lets the exception out of syncNow: no outcome, no result
FailRepoRethrows(r, error, short) == IdleSlot

\* the catch block of the loop (and the "no relevant files" branch): a failed
\* outcome and an errors entry, then the next repository
FailRepo(r, error, short) ==
    [ResetRepoLocals(r) EXCEPT
        !.results = Append(@, [repository |-> CurrentUrl(r), success |-> FALSE,
                               itemsUpdated |-> 0, error |-> error]),
        !.errors  = Append(@, [repository |-> CurrentUrl(r), message |-> short]),
        !.i       = @ + 1,
        !.pc      = "loop"]

\* a success branch that forgets totalItemsUpdated += itemsUpdated
SucceedRepoUncounted(r, itemsUpdated) ==
    [ResetRepoLocals(r) EXCEPT
        !.results = Append(@, [repository |-> CurrentUrl(r), success |-> TRUE,
                               itemsUpdated |-> itemsUpdated, error |-> <<>>]),
        !.i       = @ + 1,
        !.pc      = "loop"]

\* a success branch that goes on to the next repository before the outcome is pushed
SucceedRepoUnrecorded(r, itemsUpdated) ==
    [ResetRepoLocals(r) EXCEPT !.i = @ + 1, !.pc = "loop"]

\* results.push({repository, success: true, itemsUpdated}) and the total
SucceedRepo(r, itemsUpdated) ==
    [ResetRepoLocals(r) EXCEPT
        !.results = Append(@, [repository |-> CurrentUrl(r), success |-> TRUE,
                               itemsUpdated |-> itemsUpdated, error |-> <<>>]),
        !.totalItemsUpdated = @ + itemsUpdated,
        !.i       = @ + 1,
        !.pc      = "loop"]

\* checkAuthentication of the two providers: a session, or at least one stored PAT
checkAuthentication(provider) ==
    IF provider = "azure" THEN Len(pats) > 0 ELSE ghSession

Bool(b) == IF b THEN "true" ELSE "false"

\* one entry of an invocation's call history for the current repository
Call(op, ret) == [op |-> op, ret |-> ret]

\* a lookup that never finds the instance made earlier
gitProvidersGetNothing(providers, url) == FALSE

\* this.gitProviders.get(repoUrl) finds an instance
gitProvidersGet(providers, url) == url \in DOMAIN providers

\* loop head: get or create the provider, then the first checkAuthentication
RepoStart(s) ==
    /\ inv[s].pc = "loop"
    /\ inv[s].i <= Len(inv[s].repoConfigs)
    /\ \E r \in {inv[s]} :
       \E url \in {CurrentUrl(r)} :
       \E cached \in {gitProvidersGet(gitProviders, url)} :
       \E made \in {createFromUrl(url, initialized)} :
          IF ~cached /\ ~initialized
          THEN /\ inv' = [inv EXCEPT ![s] =
                             [FailRepo(r, <<"Extension context not available">>,
                                          <<"Extension context not available">>)
                                 EXCEPT !.log = <<>>]]
               /\ UNCHANGED <<gitProviders, hist>>
          ELSE IF ~cached /\ ~made.ok
          THEN /\ inv' = [inv EXCEPT ![s] =
                             [FailRepo(r, <<made.error>>, <<made.error>>) EXCEPT !.log = <<>>]]
               /\ UNCHANGED <<gitProviders, hist>>
          ELSE \* new GitHubApiManager() / new AzureDevOpsApiManager(context)
               \E gitApi \in {IF cached THEN gitProviders[url]
                               ELSE [provider |-> made.provider, instance |-> hist.created + 1]} :
               \E isAuthenticated \in {checkAuthentication(gitApi.provider)} :
                   /\ gitProviders' = IF cached THEN gitProviders
                                      ELSE (url :> gitApi) @@ gitProviders
                   /\ hist' = IF cached THEN hist ELSE [hist EXCEPT !.created = @ + 1]
                   /\ inv' = [inv EXCEPT ![s] =
                                 [r EXCEPT !.provider = gitApi.provider,
                                           !.gitApi = gitApi.instance,
                                           !.log = <<Call("check", Bool(isAuthenticated))>>,
                                           !.pc = IF isAuthenticated THEN "tree" ELSE "notify"]]
    /\ UNCHANGED <<config, files, ghSession, pats, patCache, initialized, timer, pending,
                   startupTimer, status, runs, errorDialogs, queuedSyncs, lastRun, changesLeft>>

\* AzureDevOpsApiManager.addPAT
addPAT(list, pat) ==
    IF \E k \in 1..Len(list) : list[k] = pat THEN list ELSE Append(list, pat)

\* what the user types into the PAT input box; "cancel" closes it
PatInputs == {"cancel", "good", "bad"}

\* the buttons of NotificationManager.showAuthenticationRequired
authActions(cfg) ==
    LET usedProviders == getUsedProviders(cfg.repositories)
    IN  (IF "github" \in usedProviders THEN {"Sign in to GitHub"} ELSE {})
        \cup (IF "azure" \in usedProviders THEN {"Setup Azure DevOps"} ELSE {})
        \cup {"Show Logs"}

\* await this.notifications.showAuthenticationRequired(): the warning and the
\* action the user picks; showWarning answers undefined when notifications are off
Notify(s) ==
    LET r == inv[s]
    IN  /\ r.pc = "notify"
        /\ \E choice \in (IF config.showNotifications THEN authActions(config) ELSE {}) \cup {"dismissed"} :
              CASE choice = "Sign in to GitHub" ->
                      \* handleGitHubSignIn: the github.signin command
                      \E signedIn \in BOOLEAN :
                          /\ ghSession' = (ghSession \/ signedIn)
                          /\ pats' = pats
                          /\ inv' = [inv EXCEPT ![s] =
                                        [r EXCEPT !.log = Append(@, Call("notify", choice)),
                                                  !.pc = "recheck"]]
                [] choice = "Setup Azure DevOps" ->
                      \* handleAzureDevOpsSetup: requestAuthentication of a new manager
                      \E input \in PatInputs :
                          /\ pats' = IF input = "cancel" THEN pats ELSE addPAT(pats, input)
                          /\ ghSession' = ghSession
                          /\ inv' = [inv EXCEPT ![s] =
                                        [r EXCEPT !.log = @ \o <<Call("notify", choice),
                                                                 Call("setup", Bool(input # "cancel"))>>,
                                                  !.pc = "recheck"]]
                [] OTHER ->
                      /\ UNCHANGED <<ghSession, pats>>
                      /\ inv' = [inv EXCEPT ![s] =
                                    [r EXCEPT !.log = Append(@, Call("notify", choice)),
                                              !.pc = "recheck"]]
        /\ UNCHANGED <<config, files, initialized, timer, pending, startupTimer, status,
                       gitProviders, patCache, runs, errorDialogs, queuedSyncs, lastRun, changesLeft, hist>>

\* a loop that asks for credentials right after the notification
RecheckSkipped(s) ==
    LET r == inv[s]
    IN  /\ r.pc = "recheck"
        /\ inv' = [inv EXCEPT ![s] = [r EXCEPT !.pc = "request"]]
        /\ UNCHANGED <<config, files, ghSession, pats, initialized, timer, pending,
                       startupTimer, status, gitProviders, patCache, runs, errorDialogs,
                       queuedSyncs, lastRun, changesLeft, hist>>

\* the second checkAuthentication, after the notification flow
Recheck(s) ==
    LET r               == inv[s]
        isAuthenticated == checkAuthentication(r.provider)
    IN  /\ r.pc = "recheck"
        /\ inv' = [inv EXCEPT ![s] =
                      [r EXCEPT !.log = Append(@, Call("check", Bool(isAuthenticated))),
                                !.pc = IF isAuthenticated THEN "tree" ELSE "request"]]
        /\ UNCHANGED <<config, files, ghSession, pats, initialized, timer, pending,
                       startupTimer, status, gitProviders, patCache, runs, errorDialogs,
                       queuedSyncs, lastRun, changesLeft, hist>>

\* a loop that prompts again for as long as the user refuses
RequestUntilAccepted(s) ==
    LET r       == inv[s]
        refused == [r EXCEPT !.log = Append(@, Call("request", "false")), !.pure = FALSE]
        passed  == [r EXCEPT !.log = Append(@, Call("request", "true")), !.pc = "tree"]
    IN  /\ r.pc = "request"
        /\ \E accepted \in BOOLEAN :
              /\ ghSession' = (ghSession \/ (accepted /\ r.provider # "azure"))
              /\ pats' = IF accepted /\ r.provider = "azure" THEN addPAT(pats, "good") ELSE pats
              /\ inv' = [inv EXCEPT ![s] = IF accepted THEN passed ELSE refused]
        /\ UNCHANGED <<config, files, initialized, timer, pending, startupTimer, status,
                       gitProviders, patCache, runs, errorDialogs, queuedSyncs, lastRun, changesLeft, hist>>

\* gitApi.requestAuthentication(): the interactive prompt of the orchestrator
Request(s) ==
    LET r      == inv[s]
        failed == [FailRepo(r, <<getProviderName(r.provider), "authentication failed">>,
                               <<getProviderName(r.provider), "authentication failed">>)
                      EXCEPT !.log = Append(r.log, Call("request", "false")), !.pure = FALSE]
        passed == [r EXCEPT !.log = Append(@, Call("request", "true")), !.pc = "tree"]
    IN  /\ r.pc = "request"
        /\ IF r.provider = "azure"
           THEN \E input \in PatInputs :
                   /\ pats' = IF input = "cancel" THEN pats ELSE addPAT(pats, input)
                   /\ ghSession' = ghSession
                   /\ inv' = [inv EXCEPT ![s] = IF input = "cancel" THEN failed ELSE passed]
           ELSE \E authSuccess \in BOOLEAN :
                   /\ ghSession' = (ghSession \/ authSuccess)
                   /\ pats' = pats
                   /\ inv' = [inv EXCEPT ![s] = IF authSuccess THEN passed ELSE failed]
        /\ UNCHANGED <<config, files, initialized, timer, pending, startupTimer, status,
                       gitProviders, patCache, runs, errorDialogs, queuedSyncs, lastRun, changesLeft, hist>>

\* ------------------------------------------------------------- tree and files
\* validateHeaders: the PATs the organization accepts
ValidPATs(organization) == {"good"}

\* a cache entry taken out: delete cache[organization]
DeleteEntry(cache, organization) == [o \in DOMAIN cache \ {organization} |-> cache[o]]

\* a lookup that keeps a cache entry whose PAT failed validation
getAuthHeadersKeepsStale(list, cache, organization, valid) ==
    LET N        == Len(list)
        inRange  == organization \in DOMAIN cache /\ cache[organization] <= N
        cached   == IF inRange THEN <<cache[organization]>> ELSE <<>>
        works(k) == list[k] \in valid
        hits     == {k \in 1..N : works(k)}
        first    == CHOOSE k \in hits : \A j \in hits : k <= j
    IN  IF N = 0
        THEN [ok |-> FALSE, hit |-> FALSE, cache |-> cache, used |-> 0, tried |-> <<>>]
        ELSE IF inRange /\ works(cache[organization])
        THEN [ok |-> TRUE, hit |-> TRUE, cache |-> cache, used |-> cache[organization],
              tried |-> cached]
        ELSE IF hits # {}
        THEN [ok |-> TRUE, hit |-> FALSE, cache |-> (organization :> first) @@ cache,
              used |-> first, tried |-> cached \o [k \in 1..first |-> k]]
        ELSE [ok |-> FALSE, hit |-> FALSE, cache |-> cache, used |-> 0,
              tried |-> cached \o [k \in 1..N |-> k]]

\* AzureDevOpsApiManager.getAuthHeaders: the cached PAT first, then every PAT
\* in list order; ok is FALSE when it throws; hit tells that the cached PAT
\* validated; used is the position of the PAT the headers are built from,
\* tried the positions validated, in order
getAuthHeaders(list, cache, organization, valid) ==
    LET N        == Len(list)
        inRange  == organization \in DOMAIN cache /\ cache[organization] <= N
        cached   == IF inRange THEN <<cache[organization]>> ELSE <<>>
        works(k) == list[k] \in valid
        \* the cache after a stale entry was deleted and saved
        cleaned  == IF inRange THEN DeleteEntry(cache, organization) ELSE cache
        hits     == {k \in 1..N : works(k)}
        first    == CHOOSE k \in hits : \A j \in hits : k <= j
    IN  IF N = 0
        THEN [ok |-> FALSE, hit |-> FALSE, cache |-> cache, used |-> 0, tried |-> <<>>]
        ELSE IF inRange /\ works(cache[organization])
        THEN [ok |-> TRUE, hit |-> TRUE, cache |-> cache, used |-> cache[organization],
              tried |-> cached]
        ELSE IF hits # {}
        THEN [ok |-> TRUE, hit |-> FALSE, cache |-> (organization :> first) @@ cleaned,
              used |-> first, tried |-> cached \o [k \in 1..first |-> k]]
        ELSE [ok |-> FALSE, hit |-> FALSE, cache |-> cleaned, used |-> 0,
              tried |-> cached \o [k \in 1..N |-> k]]

\* the organization of an Azure DevOps repository URL
OrganizationOf(url) == parseOwnerInfo(parseAzureUrl(url).owner).organization

\* the headers getRepositoryTree and getFileContent ask for; the GitHub
\* provider keeps no cache
AuthHeaders(provider, url) ==
    IF provider = "azure"
    THEN CHOOSE got \in {getAuthHeaders(pats, patCache, organization, ValidPATs(organization)) :
                             organization \in {OrganizationOf(url)}} : TRUE
    ELSE [ok |-> TRUE, hit |-> FALSE, cache |-> patCache, used |-> 0, tried |-> <<>>]

RECURSIVE AzureTreeItems(_)
AzureTreeItems(items) ==
    IF items = <<>> THEN <<>>
    ELSE LET item == items[1]
             path == IF item.path # <<>> /\ item.path[1] = "/" THEN Tail(item.path) ELSE item.path
         IN  IF item.type = "blob" THEN <<Blob(path)>> \o AzureTreeItems(Tail(items))
             ELSE AzureTreeItems(Tail(items))

\* what getRepositoryTree returns when the remote answers: Azure keeps the
\* blobs and drops one leading "/", GitHub passes the tree on
getRepositoryTree(provider, url, branch) ==
    IF provider = "azure" THEN AzureTreeItems(RemoteItems(url, branch))
    ELSE RemoteItems(url, branch)

AuthRejected(provider) ==
    IF provider = "azure" THEN <<"No valid PAT found for Azure DevOps organization">>
    ELSE <<"Failed to get branch info: 401">>

TransportError == <<"Failed to get repository tree: 500">>

\* a "no relevant files" message that does not say where prompts are expected
NoRelevantFilesErrorShort == <<"No relevant files found">>

NoRelevantFilesError ==
    <<"No relevant files found, make sure prompts are in valid directories: ">>
    \o REPO_SYNC_CHAT_MODE_PATH \o <<", ">> \o REPO_SYNC_INSTRUCTIONS_PATH \o <<", ">>
    \o REPO_SYNC_PROMPT_PATH

\* parseRepositoryUrl, getRepositoryTree and filterRelevantFiles
TreeStep(s) ==
    LET r      == inv[s]
        url    == CurrentUrl(r)
        logged(ret) == Append(r.log, Call("tree", ret))
    IN  /\ r.pc = "tree"
        /\ \E parsed \in {parseRepositoryUrl(r.provider, url)} :
           \E owned \in {r.provider = "azure" => parseOwnerInfo(parsed.owner).ok} :
           \E auth \in {IF parsed.ok /\ owned THEN AuthHeaders(r.provider, url)
                        ELSE [ok |-> FALSE, hit |-> FALSE, cache |-> patCache, used |-> 0, tried |-> <<>>]} :
              /\ inv' = [inv EXCEPT ![s] =
                    IF ~parsed.ok
                    THEN FailRepo(r, <<"Invalid repository URL">>, <<"Invalid repository URL">>)
                    ELSE IF ~owned
                    THEN FailRepo(r, <<"Invalid owner format">>, <<"Invalid owner format">>)
                    ELSE IF ~auth.ok
                    THEN \* no stored PAT is valid for the organization
                         [FailRepo(r, AuthRejected(r.provider), AuthRejected(r.provider))
                             EXCEPT !.log = logged("auth"), !.pure = FALSE]
                    ELSE IF TreeFails(url, CurrentBranch(r))
                    THEN [FailRepo(r, TransportError, TransportError)
                             EXCEPT !.log = logged("transport")]
                    ELSE LET tree          == getRepositoryTree(r.provider, url, CurrentBranch(r))
                             relevantFiles == filterRelevantFiles(config, tree)
                             \* history: how many files the filter kept for this repository
                             kept          == r.filtered \cup {[idx |-> r.i, count |-> Len(relevantFiles)]}
                         IN  IF relevantFiles = <<>>
                             THEN [FailRepo(r, NoRelevantFilesError, <<"No relevant files found">>)
                                      EXCEPT !.log = logged("ok"), !.filtered = kept]
                             ELSE [r EXCEPT !.relevantFiles = relevantFiles,
                                            !.log = logged("ok"),
                                            !.filtered = kept,
                                            !.pc = "ensureDir"]]
              /\ patCache' = auth.cache
        /\ UNCHANGED <<config, files, ghSession, pats, initialized, timer, pending,
                       startupTimer, status, gitProviders, runs, errorDialogs, queuedSyncs,
                       lastRun, changesLeft, hist>>

\* syncFiles: ensureDirectoryExists(promptsDir)
EnsureDirStep(s) ==
    LET r == inv[s]
    IN  /\ r.pc = "ensureDir"
        /\ inv' = [inv EXCEPT ![s] = [r EXCEPT !.j = 1, !.itemsUpdated = 0, !.pc = "fetch"]]
        /\ UNCHANGED <<config, files, ghSession, pats, initialized, timer, pending,
                       startupTimer, status, gitProviders, patCache, runs, errorDialogs, queuedSyncs,
                       lastRun, changesLeft, hist>>

\* a file loop that fetches the same file again and again
NextFileStays(r) == [r EXCEPT !.content = "", !.pc = "fetch"]

\* the end of one pass of the file loop: the next file, or syncFiles returns
NextFile(r) ==
    IF r.j < Len(r.relevantFiles)
    THEN [r EXCEPT !.j = @ + 1, !.content = "", !.pc = "fetch"]
    ELSE SucceedRepo(r, r.itemsUpdated)

\* a loop body that treats empty content like any other content
onContentKeepsEmpty(r, content) == [r EXCEPT !.content = content, !.pc = "compare"]

\* syncFiles: if (!content) continue; otherwise on to the comparison
onContent(r, content) ==
    IF content = "" THEN NextFile(r) ELSE [r EXCEPT !.content = content, !.pc = "compare"]

\* syncFiles: getFileContent for the current file
FetchStep(s) ==
    LET r       == inv[s]
        file    == r.relevantFiles[r.j]
        content == RemoteContent(CurrentUrl(r), CurrentBranch(r), file.path)
        auth    == AuthHeaders(r.provider, CurrentUrl(r))
    IN  /\ r.pc = "fetch"
        /\ patCache' = auth.cache
        /\ IF ~auth.ok \/ ContentFails(CurrentUrl(r), CurrentBranch(r), file.path)
           THEN \* getFileContent throws: the error dialog is shown, not awaited,
                \* and syncFiles returns the count so far
                /\ errorDialogs' = errorDialogs + 1
                /\ inv' = [inv EXCEPT ![s] =
                              [SucceedRepo(r, r.itemsUpdated) EXCEPT !.fetchThrew = @ \cup {r.i},
                                                                     !.fetched = @ \cup {r.i}]]
           ELSE \* content arrives; empty content is skipped
                /\ errorDialogs' = errorDialogs
                /\ inv' = [inv EXCEPT ![s] =
                              [onContent(r, content) EXCEPT !.fetched = @ \cup {r.i}]]
        /\ UNCHANGED <<config, files, ghSession, pats, initialized, timer, pending,
                       startupTimer, status, gitProviders, runs, queuedSyncs, lastRun, changesLeft, hist>>

LocalName(r) == getBasename(r.relevantFiles[r.j].path)

Materialised(r) == [idx |-> r.i, name |-> LocalName(r), content |-> r.content]

\* a comparison that always asks for a write
shouldUpdateFileAlways(name, newContent) == TRUE

\* a comparison that leaves a file it cannot read alone
shouldUpdateFileSkipsUnreadable(name, newContent) ==
    IF files[name] = NoFile THEN TRUE
    ELSE IF ReadFails(name) THEN FALSE
    ELSE files[name] # newContent

\* whether the local file has to be written: it is absent, it cannot be read,
\* or its content differs
shouldUpdateFile(name, newContent) ==
    IF files[name] = NoFile THEN TRUE
    ELSE IF ReadFails(name) THEN TRUE
    ELSE files[name] # newContent

\* syncFiles: shouldUpdateFile
CompareStep(s) ==
    LET r    == inv[s]
        name == LocalName(r)
    IN  /\ r.pc = "compare"
        /\ inv' = [inv EXCEPT ![s] =
                      IF shouldUpdateFile(name, r.content) THEN [r EXCEPT !.pc = "write"]
                      ELSE [NextFile(r) EXCEPT !.got = @ \cup {Materialised(r)}]]
        /\ UNCHANGED <<config, files, ghSession, pats, initialized, timer, pending,
                       startupTimer, status, gitProviders, patCache, runs, errorDialogs, queuedSyncs,
                       lastRun, changesLeft, hist>>

\* a write that empties the directory first
writeFileContentIntoEmptied(dir, name, content) ==
    [n \in DOMAIN dir |-> IF n = name THEN content ELSE NoFile]

\* FileSystemManager.writeFileContent: the file holds the content afterwards
writeFileContent(dir, name, content) == [dir EXCEPT ![name] = content]

\* a write error that reaches the catch block of the repository
onWriteErrorFailsRepository(r) == FailRepo(r, <<"EACCES">>, <<"EACCES">>)

\* syncFiles: the catch of the file loop logs the error; on to the next file
onWriteError(r) == NextFile(r)

\* syncFiles: writeFileContent and the count; a write that throws is logged
\* by the catch of the file loop, which goes on to the next file
WriteStep(s) ==
    LET r == inv[s]
    IN  /\ r.pc = "write"
        /\ IF WriteFails(LocalName(r))
           THEN /\ files' = files
                /\ inv' = [inv EXCEPT ![s] = onWriteError(r)]
           ELSE /\ files' = writeFileContent(files, LocalName(r), r.content)
                /\ inv' = [inv EXCEPT ![s] =
                              [NextFile([r EXCEPT !.itemsUpdated = @ + 1])
                                  EXCEPT !.got = @ \cup {Materialised(r)}]]
        /\ UNCHANGED <<config, ghSession, pats, initialized, timer, pending, startupTimer,
                       status, gitProviders, patCache, runs, errorDialogs, queuedSyncs, lastRun, changesLeft, hist>>

\* ------------------------------------------------- aggregation and outcome
RECURSIVE CountSuccess(_)
CountSuccess(results) ==
    IF results = <<>> THEN 0
    ELSE (IF results[1].success THEN 1 ELSE 0) + CountSuccess(Tail(results))

\* an every() that wants at least one result
EveryOfSome(results) == results # <<>> /\ \A k \in 1..Len(results) : results[k].success

\* results.every(r => r.success)
Every(results) == \A k \in 1..Len(results) : results[k].success

\* which side effect syncNow chooses from the result
OutcomeKind(r) ==
    IF r.overallSuccess THEN "success"
    ELSE IF r.successCount > 0 THEN "partial"
    ELSE "failure"

\* an errors entry as the string `${repoUrl}: ${errorMessage}`
ErrorText(e) == e.repository \o <<": ">> \o e.message

\* errors.join('; ')
RECURSIVE JoinErrors(_)
JoinErrors(errors) ==
    IF errors = <<>> THEN <<>>
    ELSE IF Len(errors) = 1 THEN ErrorText(errors[1])
    ELSE ErrorText(errors[1]) \o <<"; ">> \o JoinErrors(Tail(errors))

\* an outcome choice that reports a run without any success as partial
OutcomeNotificationNeverFails(r, overallSuccess, successCount) ==
    IF overallSuccess THEN showSyncSuccess(r.totalItemsUpdated)
    ELSE showPartialSyncSuccess(r.totalItemsUpdated, successCount, Len(r.repoConfigs), r.errors)

\* syncNow: the notification chosen from the result of syncMultipleRepositories
OutcomeNotification(r, overallSuccess, successCount) ==
    IF overallSuccess THEN showSyncSuccess(r.totalItemsUpdated)
    ELSE IF successCount > 0
    THEN showPartialSyncSuccess(r.totalItemsUpdated, successCount, Len(r.repoConfigs), r.errors)
    ELSE showSyncError(<<"All repositories failed: ">> \o JoinErrors(r.errors))

\* the loop is over: syncMultipleRepositories returns, syncNow sets the status
\* bar and shows the outcome notification
Aggregate(s) ==
    LET r              == inv[s]
        overallSuccess == Every(r.results)
        successCount   == CountSuccess(r.results)
    IN  /\ r.pc = "loop"
        /\ r.i > Len(r.repoConfigs)
        /\ status' = IF overallSuccess \/ successCount > 0 THEN "success" ELSE "error"
        /\ inv' = [inv EXCEPT ![s] =
              [r EXCEPT !.overallSuccess = overallSuccess,
                        !.successCount = successCount,
                        !.shown = Append(@, OutcomeNotification(r, overallSuccess, successCount)),
                        !.pc = "outcome"]]
        /\ UNCHANGED <<config, files, ghSession, pats, initialized, timer, pending,
                       startupTimer, gitProviders, patCache, runs, errorDialogs, queuedSyncs,
                       lastRun, changesLeft, hist>>

\* showSyncError offers "Add Azure DevOps PAT" when the message names Azure DevOps
MentionsAzure(errors) ==
    \E k \in 1..Len(errors) :
        \/ Mentions(errors[k].repository, "dev.azure.com")
        \/ Mentions(errors[k].repository, ".visualstudio.com")
        \/ errors[k].message = AuthRejected("azure")

\* the buttons of the outcome notification
outcomeActions(r) ==
    CASE OutcomeKind(r) = "success" -> {}
      [] OutcomeKind(r) = "partial" ->
            IF config.showNotifications THEN {"Show Details", "Retry Failed"} ELSE {}
      [] OTHER ->
            {"Retry", "Show Logs"} \cup (IF MentionsAzure(r.errors) THEN {"Add Azure DevOps PAT"} ELSE {})

\* the awaited outcome notification answers; then scheduleNextSync() and return
Outcome(s) ==
    LET r == inv[s]
    IN  /\ r.pc = "outcome"
        /\ \E choice \in outcomeActions(r) \cup {"dismissed"} :
              CASE choice \in {"Retry", "Retry Failed"} ->
                      /\ runs + queuedSyncs < MaxRuns
                      /\ queuedSyncs' = queuedSyncs + 1
                      /\ pats' = pats
                [] choice = "Add Azure DevOps PAT" ->
                      /\ \E input \in PatInputs :
                            pats' = IF input = "cancel" THEN pats ELSE addPAT(pats, input)
                      /\ queuedSyncs' = queuedSyncs
                [] OTHER ->
                      UNCHANGED <<queuedSyncs, pats>>
        /\ timer' = scheduleNextSync(config, timer, pending).timer
        /\ pending' = scheduleNextSync(config, timer, pending).pending
        /\ inv' = [inv EXCEPT ![s] = IdleSlot]
        /\ lastRun' = [finished |-> TRUE, pure |-> r.pure]
        /\ hist' = [hist EXCEPT !.returned = Result("aggregated", r.overallSuccess,
                                                    r.totalItemsUpdated, JoinErrors(r.errors)),
                                !.returns = @ + 1,
                                !.paused = FALSE,
                                \* this return armed the schedule last
                                !.scheduled = [by |-> "outcome", before |-> {}]]
        /\ UNCHANGED <<config, files, ghSession, initialized, startupTimer, status,
                       gitProviders, patCache, runs, errorDialogs, changesLeft>>

\* a catch block that re-arms the scheduler
CaughtSchedule(cfg, handle, timers) == scheduleNextSync(cfg, handle, timers)

\* the catch block of syncNow leaves the scheduler alone
CaughtLeavesSchedule(cfg, handle, timers) == [timer |-> handle, pending |-> timers]

\* the catch block of syncNow: the awaited showSyncError(errorMessage) answers,
\* then the failed result is returned; scheduleNextSync() is not called
Caught(s) ==
    LET r == inv[s]
    IN  /\ r.pc = "caught"
        /\ \E choice \in {"Retry", "Show Logs", "dismissed"} :
              IF choice = "Retry"
              THEN /\ runs + queuedSyncs < MaxRuns
                   /\ queuedSyncs' = queuedSyncs + 1
              ELSE queuedSyncs' = queuedSyncs
        /\ timer' = CaughtLeavesSchedule(config, timer, pending).timer
        /\ pending' = CaughtLeavesSchedule(config, timer, pending).pending
        /\ inv' = [inv EXCEPT ![s] = IdleSlot]
        /\ hist' = [hist EXCEPT !.returned = Result("caught", FALSE, 0, r.caught),
                                !.returns = @ + 1,
                                !.escaped = TRUE,
                                !.paused = (pending = {})]
        /\ UNCHANGED <<config, files, ghSession, pats, initialized, startupTimer, status,
                       gitProviders, patCache, runs, errorDialogs, lastRun, changesLeft>>

Next ==
    \/ Initialize
    \/ ManualSync
    \/ StartupSync
    \/ TimerSync
    \/ CommandSync
    \/ DialogRetry
    \/ DialogDismiss
    \/ \E s \in Slots : RepoStart(s)
    \/ \E s \in Slots : Notify(s)
    \/ \E s \in Slots : Recheck(s)
    \/ \E s \in Slots : Request(s)
    \/ \E s \in Slots : TreeStep(s)
    \/ \E s \in Slots : EnsureDirStep(s)
    \/ \E s \in Slots : FetchStep(s)
    \/ \E s \in Slots : CompareStep(s)
    \/ \E s \in Slots : WriteStep(s)
    \/ \E s \in Slots : Aggregate(s)
    \/ \E s \in Slots : Outcome(s)
    \/ \E s \in Slots : Caught(s)
    \/ ConfigChanged

Spec == Init /\ [][Next]_vars

\* ===================================================================== claims
InLoop(s) == inv[s].pc \in {"loop", "notify", "recheck", "request", "tree", "ensureDir",
                            "fetch", "compare", "write"}

\* C1: a syncNow() arriving while a sync pass is running starts no second pass:
\* at no time are two per-repository loops in progress.
C1_NoSecondPass == Cardinality({s \in Slots : InLoop(s)}) <= 1

\* the host of a configured repository is one createFromUrl cannot serve
Unsupported(url) == ~createFromUrl(url, TRUE).ok

Last(seq) == seq[Len(seq)]

\* C2: every configured repository gets exactly one outcome, in configuration
\* order; a repository whose provider creation, authentication, URL parsing or
\* tree fetch fails gets a failed outcome, and the repositories after it are
\* still processed.
C2_OneOutcomePerRepository ==
    \A s \in Slots :
        LET r == inv[s]
        IN  Active(s) /\ r.pc # "caught" =>
              /\ r.i \in 1..(Len(r.repoConfigs) + 1)
              /\ Len(r.results) = r.i - 1
              /\ r.pc = "outcome" => Len(r.results) = Len(r.repoConfigs)
              /\ \A k \in 1..Len(r.results) :
                    /\ r.results[k].repository = r.repoConfigs[k].url
                    /\ Unsupported(r.repoConfigs[k].url) => ~r.results[k].success
                    /\ ~parseRepositoryUrl(detectProvider(r.repoConfigs[k].url),
                                           r.repoConfigs[k].url).ok => ~r.results[k].success
              /\ (r.pc \in {"loop", "outcome"} /\ r.log # <<>>
                     /\ Last(r.log) \in {Call("request", "false"), Call("tree", "auth"),
                                         Call("tree", "transport")})
                   => ~r.results[r.i - 1].success

\* a run ended with [success, fail, success]
C2_Witness ==
    \E s \in Slots :
        /\ inv[s].pc = "outcome"
        /\ Len(inv[s].results) = 3
        /\ inv[s].results[1].success
        /\ ~inv[s].results[2].success
        /\ inv[s].results[3].success

RECURSIVE SumItems(_)
SumItems(results) ==
    IF results = <<>> THEN 0 ELSE results[1].itemsUpdated + SumItems(Tail(results))

RECURSIVE FailedRepositories(_)
FailedRepositories(results) ==
    IF results = <<>> THEN <<>>
    ELSE (IF results[1].success THEN <<>> ELSE <<results[1].repository>>)
         \o FailedRepositories(Tail(results))

\* C3: in every result, overallSuccess holds exactly when every outcome
\* succeeded, totalItemsUpdated is the sum of the outcomes' itemsUpdated, and
\* errors has one entry per failed outcome, naming its repository, and none
\* for a successful one.
C3_ResultConsistent ==
    \A s \in Slots :
        LET r == inv[s]
        IN  Active(s) =>
              /\ r.totalItemsUpdated = SumItems(r.results)
              /\ [k \in 1..Len(r.errors) |-> r.errors[k].repository] = FailedRepositories(r.results)
              /\ r.pc = "outcome" =>
                    (r.overallSuccess <=> \A k \in 1..Len(r.results) : r.results[k].success)

\* a result with a failed outcome and a successful one that updated a file
C3_Witness ==
    \E s \in Slots :
        /\ inv[s].pc = "outcome"
        /\ ~inv[s].overallSuccess
        /\ Len(inv[s].errors) = 1
        /\ inv[s].totalItemsUpdated >= 2

\* C4: when getFileContent throws for a matching file, the repository's
\* outcome is recorded as failed.
C4_FetchThrowFailsRepository ==
    \A s \in Slots :
        \A k \in inv[s].fetchThrew :
            k <= Len(inv[s].results) => ~inv[s].results[k].success

\* the non-empty matching files the configuration selects: local name and content
SelectedFiles(cfg) ==
    LET configs == repositoryConfigs(cfg.repositories)
    IN  UNION { LET url      == configs[k].url
                    branch   == configs[k].branch
                    relevant == filterRelevantFiles(cfg,
                                    getRepositoryTree(detectProvider(url), url, branch))
                IN  { [name |-> getBasename(relevant[m].path),
                       content |-> RemoteContent(url, branch, relevant[m].path)] :
                      m \in 1..Len(relevant) }
              : k \in 1..Len(configs) }

\* no two selected files share a local name with different content
NoCollision(cfg) ==
    \A a, b \in SelectedFiles(cfg) :
        (a.name = b.name /\ a.content # "" /\ b.content # "") => a.content = b.content

AllZero(results) == \A k \in 1..Len(results) : results[k].itemsUpdated = 0

\* the loop of a run is over; the run came right after a finished run, neither
\* overlapped another invocation, and in neither was an authentication refused,
\* by the user or by the remote
SecondOfTwo(s) == inv[s].pc = "outcome" /\ inv[s].follows /\ inv[s].pure

LastDelivered(got, name) ==
    {a \in got : a.name = name /\ \A b \in got : b.name = name => b.idx <= a.idx}

\* two repositories delivered this name with different content
Collided(got, name) ==
    \E a, b \in got : a.name = name /\ b.name = name /\ a.idx < b.idx /\ a.content # b.content

\* C6: when a sync's loop is over and two of its repositories delivered (fetched
\* and materialised without error) a file of the same basename with different
\* non-empty content, the local file holds the content of the one that is last
\* in configuration order.
C6_LastRepositoryWins ==
    [][ \A s \in Slots :
            (inv[s].pc = "loop" /\ inv'[s].pc = "outcome") =>
                \A name \in FileNames :
                    Collided(inv'[s].got, name) =>
                        \E a \in LastDelivered(inv'[s].got, name) : files'[name] = a.content
      ]_vars

\* C7: a step of a sync never removes a local file, and changes only the file
\* named by the basename of the matching remote file it has just fetched, to
\* that file's content.
C7_WritesOnlyFetchedNames ==
    [][ \A n \in FileNames :
            files'[n] # files[n] =>
                /\ files'[n] # NoFile
                /\ \E s \in Slots :
                      /\ inv[s].pc = "write"
                      /\ n = getBasename(inv[s].relevantFiles[inv[s].j].path)
                      /\ isRelevantItem(config, inv[s].relevantFiles[inv[s].j])
                      /\ files'[n] = RemoteContent(CurrentUrl(inv[s]), CurrentBranch(inv[s]),
                                                   inv[s].relevantFiles[inv[s].j].path)
      ]_vars

\* a run has written x.md, and the local-only keep.md is as it was
C7_Witness ==
    /\ lastRun.finished
    /\ files[<<"x", ".md">>] # NoFile
    /\ files[<<"keep", ".md">>] = "L"

IsOwnCall(c) == c.op # "setup"

IsInteractive(c) == c.op \in {"request", "setup"}

\* the calls the orchestrator itself made for the current repository, in order
OwnCalls(s) == SelectSeq(inv[s].log, IsOwnCall)

\* the repository the call history belongs to has its outcome recorded
RepositoryDone(s) == inv[s].pc \in {"loop", "outcome"} /\ inv[s].log # <<>>

\* C8: per repository the order is checkAuthentication; if false the
\* notification, then checkAuthentication again, and requestAuthentication only
\* if that is false too; getRepositoryTree only once authenticated. If
\* requestAuthentication returns false the outcome is a failure with error
\* "<provider> authentication failed", getRepositoryTree is not called, and the
\* loop is at the next repository.
C8_AuthenticationOrder ==
    \A s \in Slots :
        LET L == OwnCalls(s)
            r == inv[s]
        IN  /\ L # <<>> => L[1].op = "check"
            /\ \A k \in 1..Len(L) :
                  /\ L[k].op = "notify" => k = 2 /\ L[1] = Call("check", "false")
                  /\ (L[k].op = "check" /\ k > 1) => k = 3 /\ L[2].op = "notify"
                  /\ L[k].op = "request" => k = 4 /\ L[3] = Call("check", "false")
                  /\ L[k].op = "tree" =>
                        k > 1 /\ L[k - 1] \in {Call("check", "true"), Call("request", "true")}
            /\ (L # <<>> /\ Last(L) = Call("request", "false")) =>
                  /\ r.pc \in {"loop", "outcome"}
                  /\ r.i \in 2..(Len(r.repoConfigs) + 1)
                  /\ r.results[r.i - 1] =
                        [repository |-> r.repoConfigs[r.i - 1].url, success |-> FALSE,
                         itemsUpdated |-> 0,
                         error |-> <<getProviderName(detectProvider(r.repoConfigs[r.i - 1].url)),
                                     "authentication failed">>]
                  /\ \A k \in 1..Len(L) : L[k].op # "tree"

\* requestAuthentication was refused for the first repository, and the run
\* went on: the second repository has its outcome
C8_Witness ==
    \E s \in Slots :
        /\ Len(inv[s].results) >= 2
        /\ inv[s].results[1].error = <<"azure", "authentication failed">>
        /\ inv[s].results[2].repository = UNK

RECURSIVE CountCalls(_, _)
CountCalls(log, op) ==
    IF log = <<>> THEN 0
    ELSE (IF log[1].op = op THEN 1 ELSE 0) + CountCalls(Tail(log), op)

IsAuthenticationError(error) ==
    \/ error = AuthRejected("azure")
    \/ Len(error) = 2 /\ error[2] = "authentication failed"

\* C10: a repository recorded as failed for an authentication error, also one
\* whose stored credential the remote rejected during getRepositoryTree, had
\* exactly one interactive re-authentication attempt before.
C10_ReauthenticationBeforeFailure ==
    \A s \in Slots :
        (RepositoryDone(s) /\ ~inv[s].results[inv[s].i - 1].success
            /\ IsAuthenticationError(inv[s].results[inv[s].i - 1].error))
        => CountCalls(inv[s].log, "request") + CountCalls(inv[s].log, "setup") = 1

\* ---------------------------------------------------------------------- C11
\* the scheduler's timer starts a sync
TimerStarts == runs' = runs + 1 /\ hist'.trigger = "timer"

\* C11 as stated: once an exception has been caught by syncNow, no timer
\* starts a sync before the next manual syncNow() or configuration change
C11_NoAutomaticSyncAfterEscape ==
    [][hist.escaped => ~TimerStarts]_vars

\* C11, amended: an escaped exception is reported once as a failure carrying
\* its message, the failed result carries it too, and the scheduler is left as
\* it was found: when no timer was pending at the return, none is pending
\* until a syncNow() completes normally or a configuration change is handled
C11_EscapeLeavesSchedulerAsFound ==
    /\ \A s \in Slots :
          inv[s].pc = "caught" =>
             /\ inv[s].caught # <<>>
             /\ inv[s].shown = <<showSyncError(inv[s].caught)>>
             /\ inv[s].results = <<>>
    /\ hist.returned.via = "caught" =>
          /\ ~hist.returned.success
          /\ hist.returned.itemsUpdated = 0
          /\ hist.returned.error = TrimIsNotAFunction
    /\ hist.paused => pending = {}

\* a sync started by the timer ended in the catch block, and the scheduler is idle
C11_Witness ==
    /\ hist.paused
    /\ hist.trigger = "timer"
    /\ hist.returned.via = "caught"
    /\ \A s \in Slots : ~Active(s)

\* ---------------------------------------------------------------------- C12
\* C12: an invocation that reached aggregation has emitted exactly one outcome
\* notification before it returns, and when it returns one timer is pending if
\* sync is enabled and the frequency is hourly, daily or weekly, and none is
\* pending otherwise
C12_RearmedAfterOutcome ==
    /\ \A s \in Slots : inv[s].pc = "outcome" => Len(inv[s].shown) = 1
    /\ hist.scheduled.by = "outcome" =>
          IF config.enabled /\ config.frequency \in {"hourly", "daily", "weekly"}
          THEN /\ Cardinality(pending) = 1
               /\ \A t \in pending : t.interval = SYNC_FREQUENCIES(config.frequency)
          ELSE pending = {}

\* a partial success has returned and left the weekly timer armed
C12_Witness ==
    /\ hist.returned.via = "aggregated"
    /\ ~hist.returned.success
    /\ hist.returned.itemsUpdated > 0
    /\ hist.scheduled.by = "outcome"
    /\ config.frequency = "weekly"
    /\ Cardinality(pending) = 1

\* ---------------------------------------------------------------------- C13
\* C13: every call of syncNow() that is over has returned a result, none was
\* left by an exception; the result holds success and itemsUpdated, and an
\* error string whenever success is false
C13_AlwaysReturnsResult ==
    /\ runs = hist.returns + Cardinality({s \in Slots : Active(s)})
    /\ hist.returns > 0 =>
          /\ hist.returned.via \in {"disabled", "aggregated", "caught"}
          /\ hist.returned.success \in BOOLEAN
          /\ hist.returned.itemsUpdated \in Nat
          /\ ~hist.returned.success => hist.returned.error # <<>>

\* a run in which one file was written, the write of another threw and the
\* second repository is of an unsupported host has returned a failure
C13_Witness ==
    /\ config = GitHubThenUnknown
    /\ hist.returned.via = "aggregated"
    /\ ~hist.returned.success
    /\ hist.returned.itemsUpdated = 1
    /\ hist.returned.error # <<>>
    /\ files[<<"r", ".md">>] = NoFile

\* ---------------------------------------------------------------------- C14
\* C14: at most one scheduler timer is pending, it is the one this.timer
\* refers to, and it is pending only while sync is enabled with a frequency
\* whose interval is positive (startup and manual arm nothing)
C14_AtMostOneTimer ==
    /\ Cardinality(pending) <= 1
    /\ \A t \in pending :
          /\ t.id = timer
          /\ config.enabled
          /\ t.interval > 0
          /\ t.interval = SYNC_FREQUENCIES(config.frequency)
          /\ config.frequency \notin {"startup", "manual"}
    /\ SYNC_FREQUENCIES("startup") = 0
    /\ SYNC_FREQUENCIES("manual") = -1

\* the only sync so far was manual and has returned: its scheduleNextSync() met
\* the timer armed by initialize, and one timer is pending
C14_Witness ==
    /\ runs = 1
    /\ hist.trigger = "manual"
    /\ hist.returned.via = "aggregated"
    /\ Cardinality(pending) = 1

\* ---------------------------------------------------------------------- C15
\* C15: when the scheduler's timer starts a sync, no earlier sync is still
\* running
C15_TimerSyncNeverOverlaps ==
    [][TimerStarts => NoOtherActive]_vars

\* ---------------------------------------------------------------------- C16
\* C16: once a configuration change has been handled, the timer armed before it
\* is no longer pending; no timer is pending if sync is disabled or the
\* frequency is manual or startup, and otherwise exactly one timer with the new
\* frequency's interval is pending
C16_TimerFollowsConfiguration ==
    hist.scheduled.by = "change" =>
       /\ hist.scheduled.before \cap pending = {}
       /\ IF config.enabled /\ config.frequency \notin {"manual", "startup"}
          THEN /\ Cardinality(pending) = 1
               /\ \A t \in pending : t.interval = SYNC_FREQUENCIES(config.frequency)
          ELSE pending = {}

\* a change of the frequency was handled while a timer was pending: the old
\* timer is gone and one with another interval is pending
C16_Witness ==
    /\ hist.scheduled.by = "change"
    /\ \E old \in hist.scheduled.before, new \in pending :
          old.interval # new.interval

Names(text, prefix) ==
    \E k \in 1..Len(text) :
        k + Len(prefix) - 1 <= Len(text) /\ SubSeq(text, k, k + Len(prefix) - 1) = prefix

\* C18: a repository whose filtered file set is empty has a failed outcome
\* whose error names the three path prefixes, getFileContent was not called
\* and no file was materialised for it, and the loop has moved past it
C18_EmptyFilterFailsRepository ==
    \A s \in Slots :
        LET r == inv[s]
        IN  /\ \A f \in r.filtered :
                  f.count = 0 =>
                     /\ f.idx < r.i
                     /\ ~r.results[f.idx].success
                     /\ r.results[f.idx].itemsUpdated = 0
                     /\ Names(r.results[f.idx].error, REPO_SYNC_CHAT_MODE_PATH)
                     /\ Names(r.results[f.idx].error, REPO_SYNC_INSTRUCTIONS_PATH)
                     /\ Names(r.results[f.idx].error, REPO_SYNC_PROMPT_PATH)
                     /\ f.idx \notin r.fetched
                     /\ \A g \in r.got : g.idx # f.idx
            /\ (~config.syncChatmode /\ ~config.syncInstructions /\ ~config.syncPrompt) =>
                  \A f \in r.filtered : f.count = 0

\* no file type is selected: both repositories answered the tree request, both
\* failed on the empty filter and the directory is as it was
C18_Witness ==
    \E s \in Slots :
        /\ inv[s].pc = "outcome"
        /\ ~config.syncChatmode /\ ~config.syncInstructions /\ ~config.syncPrompt
        /\ Cardinality(inv[s].filtered) = 2
        /\ Len(inv[s].results) = 2
        /\ \A k \in 1..2 : inv[s].results[k].error = NoRelevantFilesError
        /\ files = inv[s].startFiles

\* ---------------------------------------------------------------------- C19
\* the filter on its own: any selection of file types, any tree of at most
\* MaxTreeLen entries out of these
TreeItems ==
    { Blob(ChatX),
      Blob(<<"\\", "prompts", "\\", "chatmode", "\\", "x", ".md">>),
      Blob(<<"/", "/", "prompts", "/", "prompt", "/", "p", ".txt">>),
      Blob(<<"prompts", "/", "instructions", "/", "i", ".md">>),
      Blob(<<"prompts", "/", "chatmode", "/", "z", ".json">>),
      Blob(<<"docs", "/", "prompts", "/", "chatmode", "/", "x", ".md">>),
      Blob(OtherY),
      Blob(<<"prompts", "/", "prompt", "/", "sub", "/", "q", ".md">>),
      Dir(<<"prompts", "/", "chatmode">>),
      Dir(<<"prompts", "/", "prompt", "/", "d", ".md">>) }

Trees == UNION { [1..n -> TreeItems] : n \in 0..MaxTreeLen }

FilterInit ==
    /\ files = [n \in FileNames |-> NoFile]
    /\ \E chatmode \in BOOLEAN, instructions \in BOOLEAN, prompt \in BOOLEAN :
          config = [DefaultConfig EXCEPT !.syncChatmode = chatmode,
                                         !.syncInstructions = instructions,
                                         !.syncPrompt = prompt]
    /\ \E tree \in Trees : hist = [tree |-> tree, applied |-> FALSE, filtered |-> <<>>]
    /\ ghSession = FALSE
    /\ pats = <<>>
    /\ changesLeft = 0
    /\ initialized = FALSE
    /\ timer = null
    /\ pending = {}
    /\ startupTimer = 0
    /\ status = "idle"
    /\ gitProviders = NoProviders
    /\ patCache = NoCache
    /\ inv = [s \in Slots |-> IdleSlot]
    /\ runs = 0
    /\ errorDialogs = 0
    /\ queuedSyncs = 0
    /\ lastRun = [finished |-> FALSE, pure |-> FALSE]

\* filterRelevantFiles(tree.tree) under the current selection
ApplyFilter ==
    /\ ~hist.applied
    /\ hist' = [hist EXCEPT !.applied = TRUE,
                            !.filtered = filterRelevantFiles(config, hist.tree)]
    /\ UNCHANGED <<config, files, ghSession, pats, initialized, timer, pending, startupTimer,
                   status, gitProviders, patCache, inv, runs, errorDialogs, queuedSyncs, lastRun,
                   changesLeft>>

FilterNext == ApplyFilter

FilterSpec == FilterInit /\ [][FilterNext]_vars

\* the prefixes of the file types that are switched on
EnabledPrefixes(cfg) ==
    (IF cfg.syncChatmode THEN {<<"prompts", "/", "chatmode", "/">>} ELSE {})
    \cup (IF cfg.syncInstructions THEN {<<"prompts", "/", "instructions", "/">>} ELSE {})
    \cup (IF cfg.syncPrompt THEN {<<"prompts", "/", "prompt", "/">>} ELSE {})

\* the entry is one the filter has to return
Wanted(cfg, item) ==
    LET slashed == [k \in 1..Len(item.path) |->
                       IF item.path[k] = "\\" THEN "/" ELSE item.path[k]]
        \* the first position that is not a leading slash
        start   == CHOOSE k \in 1..(Len(slashed) + 1) :
                       /\ \A j \in 1..(k - 1) : slashed[j] = "/"
                       /\ k <= Len(slashed) => slashed[k] # "/"
        path    == SubSeq(slashed, start, Len(slashed))
        name    == Last(Split(path, "/"))
    IN  /\ item.type = "blob"
        /\ \E prefix \in EnabledPrefixes(cfg) :
              Len(prefix) <= Len(path) /\ SubSeq(path, 1, Len(prefix)) = prefix
        /\ name # <<>>
        /\ Last(name) \in {".md", ".txt"}

\* C19: filterRelevantFiles returns, in tree order, exactly the entries that are
\* blobs, whose path, backslashes turned into slashes and leading slashes
\* dropped, starts with the prefix of an enabled type, and whose name ends in
\* .md or .txt
C19_FilterReturnsExactlyWanted ==
    hist.applied =>
       LET wanted == {k \in 1..Len(hist.tree) : Wanted(config, hist.tree[k])}
           nth(n) == CHOOSE k \in wanted : Cardinality({j \in wanted : j < k}) = n - 1
       IN  /\ Len(hist.filtered) = Cardinality(wanted)
           /\ \A n \in 1..Len(hist.filtered) : hist.filtered[n] = hist.tree[nth(n)]

\* of two entries the filter kept the one spelled with backslashes or leading
\* slashes and dropped the other
C19_Witness ==
    /\ hist.applied
    /\ Len(hist.tree) = 2
    /\ Len(hist.filtered) = 1
    /\ hist.filtered[1].path[1] \in {"/", "\\"}

\* ---------------------------------------------------------------------- C20
\* C20: when the loop is over exactly one outcome notification is shown, chosen
\* from the repository outcomes: the success notification with the total when
\* all succeeded; otherwise the partial-success notification with the total,
\* the number of successes, the number of repositories and the error list when
\* at least one succeeded; otherwise the failure notification joining all errors
C20_OneOutcomeFromResults ==
    \A s \in Slots :
        LET r         == inv[s]
            succeeded == {k \in 1..Len(r.results) : r.results[k].success}
            total     == SumItems(r.results)
            failed    == FailedRepositories(r.results)
        IN  r.pc = "outcome" =>
              /\ Len(r.shown) = 1
              /\ Len(r.errors) = Len(failed)
              /\ \A k \in 1..Len(failed) : r.errors[k].repository = failed[k]
              /\ IF Cardinality(succeeded) = Len(r.results)
                 THEN r.shown[1] = showSyncSuccess(total)
                 ELSE IF Cardinality(succeeded) > 0
                 THEN r.shown[1] = showPartialSyncSuccess(total, Cardinality(succeeded),
                                                          Len(r.repoConfigs), r.errors)
                 ELSE r.shown[1] = showSyncError(<<"All repositories failed: ">>
                                                 \o JoinErrors(r.errors))

\* two of three repositories succeeded and the partial-success notification is up
C20_Witness ==
    \E s \in Slots :
        /\ inv[s].pc = "outcome"
        /\ Len(inv[s].results) = 3
        /\ inv[s].shown[1].kind = "partial"
        /\ inv[s].shown[1].successCount = 2
        /\ inv[s].shown[1].totalCount = 3
        /\ Len(inv[s].shown[1].errors) = 1


\* ------------------------------------------------------------ C21, C22, C24
\* the fields of SyncManager as the constructor leaves them
Constructed ==
    /\ initialized = FALSE
    /\ timer = null
    /\ pending = {}
    /\ startupTimer = 0
    /\ status = "idle"
    /\ gitProviders = NoProviders
    /\ patCache = NoCache
    /\ inv = [s \in Slots |-> IdleSlot]
    /\ runs = 0
    /\ errorDialogs = 0
    /\ queuedSyncs = 0
    /\ lastRun = [finished |-> FALSE, pure |-> FALSE]
    /\ changesLeft = 0

GL1 == <<"https://", "gitlab.com", "/", "g", "/", "h">>

BB1 == <<"https://", "bitbucket.org", "/", "i", "/", "j">>

VS1 == <<"https://", "org.visualstudio.com", "/", "proj", "/", "_git", "/", "c">>

\* what the user may have typed as one entry of promptitude.repositories
RawEntries ==
    { GH1,
      GH1 \o <<"|", "main">>,
      GH1 \o <<"|", "dev">>,
      GH1 \o <<"|", " ", "dev", " ">>,
      GH1 \o <<"|">>,
      GH1 \o <<"|", " ">>,
      GH1 \o <<"|", "a", "|", "b">>,
      <<" ">> \o GH1 \o <<" ">>,
      <<" ">>,
      GH1 \o <<".git">>,
      GH2 \o <<"/">>,
      AZ1,
      VS1,
      <<"https://", "org.visualstudio.com.example.org", "/", "x">>,
      GL1,
      BB1,
      UNK,
      <<"https://", "example.org", "/", "github.com", "/", "x">> }

\* the settings hold any list of at most MaxEntries such entries
ConfigInit ==
    /\ Constructed
    /\ files = [n \in FileNames |-> NoFile]
    /\ ghSession = FALSE
    /\ pats = <<>>
    /\ \E n \in 0..MaxEntries : \E raw \in [1..n -> RawEntries] :
          config = [DefaultConfig EXCEPT !.repositories = raw]
    /\ hist = [read |-> FALSE, repoConfigs |-> <<>>, providers |-> <<>>]

\* syncMultipleRepositories reads this.config.repositoryConfigs, and
\* createFromUrl detects the provider of every entry's url
ReadConfig ==
    /\ ~hist.read
    /\ LET repoConfigs == repositoryConfigs(config.repositories)
       IN  hist' = [read        |-> TRUE,
                    repoConfigs |-> repoConfigs,
                    providers   |-> [k \in 1..Len(repoConfigs) |->
                                        detectProvider(repoConfigs[k].url)]]
    /\ UNCHANGED <<config, files, ghSession, pats, initialized, timer, pending, startupTimer,
                   status, gitProviders, patCache, inv, runs, errorDialogs, queuedSyncs, lastRun,
                   changesLeft>>

ConfigNext == ReadConfig

ConfigSpec == ConfigInit /\ [][ConfigNext]_vars

\* the text of an entry after its first "|", up to a second "|" if there is one
AfterBar(entry) ==
    LET k    == IndexOf(entry, "|")
        rest == IF k = 0 THEN <<>> ELSE SubSeq(entry, k + 1, Len(entry))
        m    == IndexOf(rest, "|")
    IN  IF m = 0 THEN rest ELSE SubSeq(rest, 1, m - 1)

\* the text of an entry before its first "|"
BeforeBar(entry) ==
    LET k == IndexOf(entry, "|")
    IN  IF k = 0 THEN entry ELSE SubSeq(entry, 1, k - 1)

\* the entries of the setting that are not blank, blanks around them removed
Entered(raw) == {Trim(raw[k]) : k \in 1..Len(raw)} \ {<<>>}

C22_NoDuplicatePairs ==
    hist.read =>
       \A j, k \in 1..Len(hist.repoConfigs) :
           j # k => hist.repoConfigs[j] # hist.repoConfigs[k]


\* ---------------------------------------------------------------------- C23
\* the host of a repository URL
HostOf(url) == IF Len(url) >= 2 THEN url[2] ELSE ""

\* C23 as stated: repositories of the same host use the same provider instance
C23_OneInstancePerHost ==
    \A u, v \in DOMAIN gitProviders :
        HostOf(u) = HostOf(v) => gitProviders[u].instance = gitProviders[v].instance

\* C23, amended: every repository URL has an instance of its own; every
\* instance ever built is still the one kept for its URL (none was replaced or
\* dropped, in no run); the repository in progress uses the instance kept for
\* its URL
C23_OneInstancePerRepositoryUrl ==
    /\ \A u, v \in DOMAIN gitProviders :
          u # v => gitProviders[u].instance # gitProviders[v].instance
    /\ hist.created = Cardinality(DOMAIN gitProviders)
    /\ \A u \in DOMAIN gitProviders :
          /\ gitProviders[u].instance \in 1..hist.created
          /\ gitProviders[u].provider = detectProvider(u)
    /\ \A s \in Slots :
          inv[s].gitApi # 0 =>
             /\ CurrentUrl(inv[s]) \in DOMAIN gitProviders
             /\ gitProviders[CurrentUrl(inv[s])].instance = inv[s].gitApi

\* a run is over, a later run is at its third repository and uses the instance
\* the earlier run built for it; the three GitHub repositories have an instance each
C23_Witness ==
    /\ lastRun.finished
    /\ hist.created = 3
    /\ \E s \in Slots :
          /\ inv[s].pure
          /\ inv[s].i = 3
          /\ inv[s].gitApi = 3
          /\ CurrentUrl(inv[s]) = GH1


\* ---------------------------------------------------------------------- C24
\* the host of a URL is one of the given hosts
HostIs(url, hosts) == HostOf(url) \in hosts

\* C24 as stated: the tag is github for a host containing github.com, azure for
\* a host containing dev.azure.com or ending with .visualstudio.com, and
\* unknown for every other URL
C24_ThreeTagsFromHost ==
    hist.read =>
       \A k \in 1..Len(hist.repoConfigs) :
          hist.providers[k] =
             IF HostIs(hist.repoConfigs[k].url, {"github.com"}) THEN "github"
             ELSE IF HostIs(hist.repoConfigs[k].url, {"dev.azure.com", "org.visualstudio.com"})
                  THEN "azure"
                  ELSE "unknown"

\* the URL, whatever part of it, holds one of the given texts
UrlHolds(url, texts) == \E k \in 1..Len(url) : TextOf(url[k]) \cap texts # {}

\* C24, amended: exactly one of five tags comes back, decided by the first
\* pattern found anywhere in the URL: github.com, then dev.azure.com or
\* .visualstudio.com, then gitlab., then bitbucket.org, and unknown otherwise
C24_FiveTagsFromUrl ==
    hist.read =>
       /\ Len(hist.providers) = Len(hist.repoConfigs)
       /\ \A k \in 1..Len(hist.repoConfigs) :
             LET url == hist.repoConfigs[k].url
                 tag == hist.providers[k]
                 gh  == UrlHolds(url, {"github.com"})
                 az  == UrlHolds(url, {"dev.azure.com", ".visualstudio.com"})
                 gl  == UrlHolds(url, {"gitlab.com", "gitlab."})
                 bb  == UrlHolds(url, {"bitbucket.org"})
             IN  /\ tag \in {"github", "azure", "gitlab", "bitbucket", "unknown"}
                 /\ tag = "github" <=> gh
                 /\ tag = "azure" <=> ~gh /\ az
                 /\ tag = "gitlab" <=> ~gh /\ ~az /\ gl
                 /\ tag = "bitbucket" <=> ~gh /\ ~az /\ ~gl /\ bb

\* a GitLab URL and a URL with github.com in its path were resolved
C24_Witness ==
    /\ hist.read
    /\ config.repositories =
          <<GL1, <<"https://", "example.org", "/", "github.com", "/", "x">>>>
    /\ hist.providers = <<"gitlab", "github">>


\* ------------------------------------------------- the file loop on its own
\* the local directories syncFiles may find
Directories ==
    { [n \in FileNames |->
          CASE n = <<"x", ".md">> -> x
            [] n = <<"u", ".md">> -> u
            [] n = <<"w", ".md">> -> w
            [] n = <<"r", ".md">> -> rr
            [] OTHER              -> NoFile] :
      x \in {NoFile, "A", "B"}, u \in {NoFile, "U", "A"}, w \in {NoFile, "C"},
      rr \in {NoFile, "R"} }

\* the repositories syncFiles is run for
FileRepositories ==
    { [url |-> GH1, branch |-> <<"main">>], [url |-> GH1, branch |-> <<"dev">>],
      [url |-> GH2, branch |-> <<"main">>], [url |-> GH2, branch |-> <<"dev">>],
      [url |-> GH4, branch |-> <<"main">>], [url |-> GH5, branch |-> <<"main">>] }

\* one run is at its only repository, authenticated, about to ask for the tree
FilesInit ==
    /\ config = DefaultConfig
    /\ ghSession = TRUE
    /\ pats = <<>>
    /\ initialized = TRUE
    /\ timer = null
    /\ pending = {}
    /\ startupTimer = 0
    /\ status = "syncing"
    /\ gitProviders = NoProviders
    /\ patCache = NoCache
    /\ runs = 1
    /\ errorDialogs = 0
    /\ queuedSyncs = 0
    /\ lastRun = [finished |-> FALSE, pure |-> FALSE]
    /\ changesLeft = 0
    /\ hist = [read |-> FALSE]
    /\ files \in Directories
    /\ \E repo \in FileRepositories :
          inv = [s \in Slots |->
                    IF s = 1
                    THEN [IdleSlot EXCEPT !.pc = "tree", !.repoConfigs = <<repo>>, !.i = 1,
                                          !.provider = "github", !.startFiles = files]
                    ELSE IdleSlot]

FilesNext ==
    \/ TreeStep(1)
    \/ EnsureDirStep(1)
    \/ FetchStep(1)
    \/ CompareStep(1)
    \/ WriteStep(1)

FilesSpec == FilesInit /\ [][FilesNext]_vars

\* ---------------------------------------------------------------------- C25
\* the files counted as updated for the repository in progress or just done
Counted(r) == IF r.pc = "loop" THEN Last(r.results).itemsUpdated ELSE r.itemsUpdated

\* C25: after a non-empty file was fetched, a write is made exactly when the
\* local file is absent, cannot be read, or holds other content; otherwise the
\* directory and the count stay as they are; a write that goes through leaves
\* the new content in the file and adds one to the count
C25_WrittenExactlyWhenChanged ==
    [][LET r      == inv[1]
           name   == getBasename(r.relevantFiles[r.j].path)
           absent == files[name] = NoFile
           differs == files[name] # r.content
           changed == absent \/ ReadFails(name) \/ differs
       IN  /\ r.pc = "compare" =>
                /\ r.content # ""
                /\ files' = files
                /\ Counted(inv'[1]) = r.itemsUpdated
                /\ inv'[1].pc = "write" <=> changed
           /\ r.pc = "write" /\ ~WriteFails(name) =>
                /\ files' = [files EXCEPT ![name] = r.content]
                /\ Counted(inv'[1]) = r.itemsUpdated + 1
           /\ r.pc = "write" /\ WriteFails(name) =>
                /\ files' = files
                /\ Counted(inv'[1]) = r.itemsUpdated]_vars

\* the repository of three files is done: the empty file was skipped, the
\* unreadable file was rewritten and the file with equal content was left
\* alone, so one file counts as updated
C25_Witness ==
    /\ inv[1].pc = "loop"
    /\ CurrentUrl([inv[1] EXCEPT !.i = 1]) = GH4
    /\ inv[1].startFiles[<<"u", ".md">>] = "U"
    /\ inv[1].startFiles[<<"x", ".md">>] = "A"
    /\ files = inv[1].startFiles
    /\ Last(inv[1].results).success
    /\ Last(inv[1].results).itemsUpdated = 1


\* ---------------------------------------------------------------------- C28
\* C28: when getFileContent delivers empty content, nothing is written, the
\* count stays as it is, and the loop goes on with the next file of the
\* repository; after the last file the repository is recorded as a success
C28_EmptyContentSkipped ==
    [][LET r    == inv[1]
           file == r.relevantFiles[r.j]
           url  == CurrentUrl(r)
       IN  /\ r.pc = "fetch"
           /\ ~ContentFails(url, CurrentBranch(r), file.path)
           /\ RemoteContent(url, CurrentBranch(r), file.path) = ""
           => /\ files' = files
              /\ Counted(inv'[1]) = r.itemsUpdated
              /\ inv'[1].errors = r.errors
              /\ IF r.j < Len(r.relevantFiles)
                 THEN /\ inv'[1].pc = "fetch"
                      /\ inv'[1].i = r.i
                      /\ inv'[1].j = r.j + 1
                      /\ inv'[1].relevantFiles = r.relevantFiles
                      /\ inv'[1].results = r.results
                 ELSE /\ inv'[1].pc = "loop"
                      /\ Len(inv'[1].results) = Len(r.results) + 1
                      /\ Last(inv'[1].results).success]_vars

\* the empty first file of the repository was skipped and the second file is
\* about to be fetched: nothing written, nothing counted, no outcome yet
C28_Witness ==
    /\ inv[1].pc = "fetch"
    /\ CurrentUrl(inv[1]) = GH4
    /\ inv[1].j = 2
    /\ inv[1].relevantFiles[1].path = ChatE
    /\ inv[1].fetched = {1}
    /\ inv[1].itemsUpdated = 0
    /\ inv[1].results = <<>>
    /\ files = inv[1].startFiles


\* ---------------------------------------------------------------------- C26
\* the run is inside the loop body of its current repository
InBody(r) == r.pc \in {"notify", "recheck", "request", "tree", "ensureDir", "fetch",
                       "compare", "write"}

\* the repositories a run has asked a tree or a file of, or materialised a file for
Touched(r) == {f.idx : f \in r.filtered} \cup r.fetched \cup {g.idx : g \in r.got}

\* C26: within a run the repositories are processed one after the other: every
\* repository a provider was asked about or a file was handled for either has
\* its outcome recorded or is the one in progress, which is the first without
\* an outcome; the provider and the file list in use are those of the
\* repository in progress
C26_StrictlySequential ==
    \A s \in Slots :
        LET r    == inv[s]
            done == Len(r.results)
        IN  Active(s) /\ r.pc # "caught" =>
              /\ \A idx \in Touched(r) :
                    idx <= done \/ (idx = done + 1 /\ InBody(r) /\ r.i = idx)
              /\ InBody(r) =>
                    /\ r.i = done + 1
                    /\ r.i <= Len(r.repoConfigs)
                    /\ r.provider = detectProvider(CurrentUrl(r))
              /\ ~InBody(r) => r.relevantFiles = <<>> /\ r.provider = "none"
              /\ r.relevantFiles # <<>> =>
                    r.relevantFiles =
                       filterRelevantFiles(config, getRepositoryTree(r.provider, CurrentUrl(r),
                                                                     CurrentBranch(r)))

\* the third repository's files are being fetched after the first
\* repository's files were written and the outcomes of the first and the
\* second repository were recorded
C26_Witness ==
    \E s \in Slots :
        /\ inv[s].pc = "fetch"
        /\ inv[s].i = 3
        /\ Len(inv[s].results) = 2
        /\ inv[s].results[1].success
        /\ inv[s].results[1].itemsUpdated > 0
        /\ ~inv[s].results[2].success
        /\ 1 \in {g.idx : g \in inv[s].got}
        /\ Touched(inv[s]) = {1, 3}


\* ------------------------------------------- the Azure DevOps PAT manager on its own
\* the PATs a user may enter
PatNames == {"good", "bad", "other"}

\* the organizations headers are asked for
Organizations == {<<"org">>, <<"org2">>}

\* a removePAT that leaves the cache as it is
removePATKeepsCache(list, cache, index) ==
    IF index \in 1..Len(list)
    THEN [pats |-> SubSeq(list, 1, index - 1) \o SubSeq(list, index + 1, Len(list)),
          cache |-> cache]
    ELSE [pats |-> list, cache |-> cache]

\* AzureDevOpsApiManager.removePAT: positions count from 1 here; a position
\* outside the list changes nothing, a removal clears the whole cache
removePAT(list, cache, index) ==
    IF index \in 1..Len(list)
    THEN [pats |-> SubSeq(list, 1, index - 1) \o SubSeq(list, index + 1, Len(list)),
          cache |-> NoCache]
    ELSE [pats |-> list, cache |-> cache]

\* a requestAuthentication that reports success without storing the PAT
requestAuthenticationForgets(list, input, stored) ==
    IF input = "cancel" THEN [ret |-> FALSE, pats |-> list]
    ELSE [ret |-> TRUE, pats |-> list]

\* AzureDevOpsApiManager.requestAuthentication: the input box, then addPAT;
\* stored is FALSE when secrets.store throws, which the catch turns into false
requestAuthentication(list, input, stored) ==
    IF input = "cancel" THEN [ret |-> FALSE, pats |-> list]
    ELSE IF addPAT(list, input) # list /\ ~stored THEN [ret |-> FALSE, pats |-> list]
    ELSE [ret |-> TRUE, pats |-> addPAT(list, input)]

\* no call made yet
NoCall ==
    [op |-> "none", ret |-> FALSE, input |-> "", organization |-> <<>>, valid |-> {},
     pats |-> <<>>, cache |-> NoCache, used |-> 0, tried |-> <<>>]

\* the call made last, with the PAT list and the cache it found
Made(op, ret) == [NoCall EXCEPT !.op = op, !.ret = ret, !.pats = pats, !.cache = patCache]

\* the manager is constructed over an empty secret store and an empty cache;
\* the history holds the call made last, whether the call before it was a
\* requestAuthentication that returned true, and for every cache entry the PAT
\* that validated when the entry was written
PatInit ==
    /\ Constructed
    /\ config = DefaultConfig
    /\ files = [n \in FileNames |-> NoFile]
    /\ ghSession = FALSE
    /\ pats = <<>>
    /\ hist = [last |-> NoCall, afterRequest |-> FALSE, written |-> NoCache]

PatFrame ==
    UNCHANGED <<config, files, ghSession, initialized, timer, pending, startupTimer, status,
                gitProviders, inv, runs, errorDialogs, queuedSyncs, lastRun, changesLeft>>

\* whether the call made last was a requestAuthentication that returned true
Accepted == hist.last.op = "request" /\ hist.last.ret

AddPAT ==
    \E pat \in PatNames :
        /\ pats' = addPAT(pats, pat)
        /\ hist' = [hist EXCEPT !.last = [Made("add", TRUE) EXCEPT !.input = pat],
                                !.afterRequest = Accepted]
        /\ UNCHANGED patCache
        /\ PatFrame

RemovePAT ==
    \E index \in 0..(Cardinality(PatNames) + 1) :
        /\ pats' = removePAT(pats, patCache, index).pats
        /\ patCache' = removePAT(pats, patCache, index).cache
        /\ hist' = [hist EXCEPT !.last = [Made("remove", TRUE) EXCEPT !.used = index],
                                !.afterRequest = Accepted,
                                !.written = IF index \in 1..Len(pats) THEN NoCache ELSE @]
        /\ PatFrame

ClearAllPATs ==
    /\ pats' = <<>>
    /\ patCache' = NoCache
    /\ hist' = [hist EXCEPT !.last = Made("clearAll", TRUE), !.afterRequest = Accepted,
                            !.written = NoCache]
    /\ PatFrame

ClearCache ==
    /\ patCache' = NoCache
    /\ hist' = [hist EXCEPT !.last = Made("clearCache", TRUE), !.afterRequest = Accepted,
                            !.written = NoCache]
    /\ UNCHANGED pats
    /\ PatFrame

\* getAuthHeaders for an organization that accepts the PATs of valid just now
GetAuthHeaders ==
    \E organization \in Organizations, valid \in SUBSET PatNames :
        LET got == getAuthHeaders(pats, patCache, organization, valid)
        IN  /\ patCache' = got.cache
            /\ hist' = [hist EXCEPT
                  !.last = [Made("get", got.ok) EXCEPT !.organization = organization,
                                                       !.valid = valid,
                                                       !.used = got.used,
                                                       !.tried = got.tried],
                  !.afterRequest = Accepted,
                  !.written = [o \in DOMAIN got.cache |->
                                  IF o = organization /\ got.ok /\ ~got.hit
                                  THEN pats[got.used]
                                  ELSE @[o]]]
            /\ UNCHANGED pats
            /\ PatFrame

RequestAuthentication ==
    \E input \in PatNames \cup {"cancel"}, stored \in BOOLEAN :
        LET asked == requestAuthentication(pats, input, stored)
        IN  /\ pats' = asked.pats
            /\ hist' = [hist EXCEPT !.last = [Made("request", asked.ret) EXCEPT !.input = input],
                                    !.afterRequest = Accepted]
            /\ UNCHANGED patCache
            /\ PatFrame

CheckAuthentication ==
    /\ hist' = [hist EXCEPT !.last = Made("check", checkAuthentication("azure")),
                            !.afterRequest = Accepted]
    /\ UNCHANGED <<pats, patCache>>
    /\ PatFrame

PatNext ==
    \/ AddPAT
    \/ RemovePAT
    \/ ClearAllPATs
    \/ ClearCache
    \/ GetAuthHeaders
    \/ RequestAuthentication
    \/ CheckAuthentication

PatSpec == PatInit /\ [][PatNext]_vars

\* ---------------------------------------------------------------------- C27
\* C27: a cancelled requestAuthentication returns false and leaves the stored
\* PATs as they were; whenever it returns true the PAT entered is in the store,
\* and a checkAuthentication made right after it returns true
C27_RequestStoresOrFails ==
    /\ hist.last.op = "request" /\ hist.last.input = "cancel" =>
          ~hist.last.ret /\ pats = hist.last.pats
    /\ hist.last.op = "request" /\ ~hist.last.ret => pats = hist.last.pats
    /\ hist.last.op = "request" /\ hist.last.ret =>
          /\ \E k \in 1..Len(pats) : pats[k] = hist.last.input
          /\ checkAuthentication("azure")
    /\ hist.last.op = "check" /\ hist.afterRequest => hist.last.ret

\* over an empty store a PAT was entered and accepted, and the
\* checkAuthentication that followed returned true
C27_Witness ==
    /\ hist.last.op = "check"
    /\ hist.afterRequest
    /\ hist.last.ret
    /\ pats = <<"bad">>


\* ---------------------------------------------------------------------- C29
\* the positions 1..n in order
UpTo(n) == [k \in 1..n |-> k]

\* C29: getAuthHeaders over a non-empty PAT list. A cached position in range
\* whose PAT validates is used, it is the only PAT tried, and the cache stays as
\* it is. Otherwise the cached PAT, if there is one, is tried first and its
\* entry is given up; the PATs are then tried in list order up to the first
\* that validates, which is used and cached for the organization; when none
\* validates the call fails and the organization has no cache entry. The
\* entries of other organizations are not touched.
C29_CachedFirstThenListOrder ==
    hist.last.op = "get" /\ hist.last.pats # <<>> =>
       LET c       == hist.last
           o       == c.organization
           N       == Len(c.pats)
           inRange == o \in DOMAIN c.cache /\ c.cache[o] \in 1..N
           cached  == IF inRange THEN <<c.cache[o]>> ELSE <<>>
           works(k) == c.pats[k] \in c.valid
       IN  /\ \A p \in DOMAIN patCache \cup DOMAIN c.cache :
                 p # o => p \in DOMAIN patCache /\ p \in DOMAIN c.cache
                          /\ patCache[p] = c.cache[p]
           /\ IF inRange /\ works(c.cache[o])
              THEN /\ c.ret
                   /\ c.used = c.cache[o]
                   /\ c.tried = cached
                   /\ patCache = c.cache
              ELSE IF \E k \in 1..N : works(k)
              THEN /\ c.ret
                   /\ works(c.used)
                   /\ \A j \in 1..(c.used - 1) : ~works(j)
                   /\ c.tried = cached \o UpTo(c.used)
                   /\ o \in DOMAIN patCache
                   /\ patCache[o] = c.used
              ELSE /\ ~c.ret
                   /\ c.tried = cached \o UpTo(N)
                   /\ o \notin DOMAIN patCache

\* the PAT cached for the organization at position 1 no longer validates: it
\* was tried first, then the list in order, and the second PAT is used and
\* cached instead
C29_Witness ==
    /\ hist.last.op = "get"
    /\ hist.last.organization = <<"org">>
    /\ hist.last.pats = <<"bad", "good", "other">>
    /\ hist.last.cache = (<<"org">> :> 1) @@ (<<"org2">> :> 3)
    /\ hist.last.valid = {"good", "other"}
    /\ hist.last.tried = <<1, 1, 2>>
    /\ hist.last.used = 2
    /\ patCache = (<<"org">> :> 2) @@ (<<"org2">> :> 3)

\* ---------------------------------------------------------------------- C30
\* C30: every cache entry names a position of the PAT list, and the PAT at that
\* position is the one that validated for the organization when the entry was
\* written
C30_CacheEntriesCurrent ==
    /\ DOMAIN hist.written = DOMAIN patCache
    /\ \A o \in DOMAIN patCache :
          /\ patCache[o] \in 1..Len(pats)
          /\ pats[patCache[o]] = hist.written[o]

\* two organizations have entries for different PATs, written before a PAT
\* was added to the list
C30_Witness ==
    /\ hist.last.op = "add"
    /\ pats = <<"bad", "good", "other">>
    /\ hist.last.pats = <<"bad", "good">>
    /\ patCache = (<<"org">> :> 2) @@ (<<"org2">> :> 1)
    /\ hist.written = (<<"org">> :> "good") @@ (<<"org2">> :> "bad")


\* ------------------------------- two calls of the PAT manager that interleave
\* the calls that are started together
RaceCalls ==
    { <<[op |-> "get", organization |-> <<"org">>, index |-> 0],
        [op |-> "get", organization |-> <<"org2">>, index |-> 0]>> }
    \cup { <<[op |-> "get", organization |-> <<"org">>, index |-> 0],
             [op |-> "remove", organization |-> <<>>, index |-> k]>> : k \in 1..2 }

\* the PAT lists the calls may find
RaceLists == {<<"good">>, <<"bad">>, <<"good", "bad">>, <<"bad", "good">>}

\* the caches the calls may find over a list: every entry names a position of it
RaceCaches(list) ==
    UNION { [D -> 1..Len(list)] : D \in SUBSET Organizations }

\* a call that has not started
Pending(call) ==
    [op |-> call.op, organization |-> call.organization, index |-> call.index,
     pc |-> "start", list |-> <<>>, cache |-> NoCache, ok |-> FALSE]

\* no call
NoRaceCall == [Pending([op |-> "none", organization |-> <<>>, index |-> 0]) EXCEPT !.pc = "done"]

\* two calls are about to start over a stored list and cache; the history
\* keeps the stores as they were, the calls, and the PATs each organization accepts
RaceInit ==
    /\ config = DefaultConfig
    /\ files = [n \in FileNames |-> NoFile]
    /\ ghSession = FALSE
    /\ initialized = TRUE
    /\ timer = null
    /\ pending = {}
    /\ startupTimer = 0
    /\ status = "idle"
    /\ gitProviders = NoProviders
    /\ runs = 0
    /\ errorDialogs = 0
    /\ queuedSyncs = 0
    /\ lastRun = [finished |-> FALSE, pure |-> FALSE]
    /\ changesLeft = 0
    /\ pats \in RaceLists
    /\ patCache \in RaceCaches(pats)
    /\ \E calls \in RaceCalls, valid \in [Organizations -> SUBSET {"good", "bad"}] :
          /\ inv = [s \in Slots |-> IF s <= 2 THEN Pending(calls[s]) ELSE NoRaceCall]
          /\ hist = [pats |-> pats, cache |-> patCache, calls |-> calls, valid |-> valid]

RaceFrame ==
    UNCHANGED <<config, files, ghSession, initialized, timer, pending, startupTimer, status,
                gitProviders, runs, errorDialogs, queuedSyncs, lastRun, changesLeft, hist>>

\* the cached position of a call's organization is inside the list the call read
CachedInRange(c) ==
    c.organization \in DOMAIN c.cache /\ c.cache[c.organization] <= Len(c.list)

\* getAuthHeaders / removePAT: await this.getAllPATs()
ReadPATs(s) ==
    LET c == inv[s]
    IN  /\ c.pc = "start"
        /\ inv' = [inv EXCEPT ![s] =
              [c EXCEPT !.list = pats,
                        !.pc = IF c.op = "get"
                               THEN (IF pats = <<>> THEN "done" ELSE "getCache")
                               ELSE (IF c.index \in 1..Len(pats) THEN "store" ELSE "done")]]
        /\ UNCHANGED <<pats, patCache>>
        /\ RaceFrame

\* getAuthHeaders: await this.getCache(), then the validation request is sent
ReadCache(s) ==
    LET c   == inv[s]
        got == [c EXCEPT !.cache = patCache]
    IN  /\ c.pc = "getCache"
        /\ inv' = [inv EXCEPT ![s] =
              [got EXCEPT !.pc = IF CachedInRange(got) THEN "cached" ELSE "loop"]]
        /\ UNCHANGED <<pats, patCache>>
        /\ RaceFrame

\* getAuthHeaders: the cached PAT was validated; a stale entry is deleted from
\* the copy of the cache and the copy is saved
AfterCached(s) ==
    LET c == inv[s]
    IN  /\ c.pc = "cached"
        /\ IF c.list[c.cache[c.organization]] \in hist.valid[c.organization]
           THEN /\ inv' = [inv EXCEPT ![s] = [c EXCEPT !.ok = TRUE, !.pc = "done"]]
                /\ UNCHANGED patCache
           ELSE /\ inv' = [inv EXCEPT ![s] =
                      [c EXCEPT !.cache = DeleteEntry(c.cache, c.organization), !.pc = "loop"]]
                /\ patCache' = DeleteEntry(c.cache, c.organization)
        /\ UNCHANGED pats
        /\ RaceFrame

\* getAuthHeaders: the PATs were validated in list order; the first that
\* validated is put into the copy of the cache and the copy is saved
AfterLoop(s) ==
    LET c     == inv[s]
        hits  == {k \in 1..Len(c.list) : c.list[k] \in hist.valid[c.organization]}
        first == CHOOSE k \in hits : \A j \in hits : k <= j
    IN  /\ c.pc = "loop"
        /\ IF hits # {}
           THEN /\ inv' = [inv EXCEPT ![s] =
                      [c EXCEPT !.cache = (c.organization :> first) @@ c.cache,
                                !.ok = TRUE, !.pc = "done"]]
                /\ patCache' = (c.organization :> first) @@ c.cache
           ELSE /\ inv' = [inv EXCEPT ![s] = [c EXCEPT !.pc = "done"]]
                /\ UNCHANGED patCache
        /\ UNCHANGED pats
        /\ RaceFrame

\* removePAT: pats.splice(index, 1) on the list read, and secrets.store
StorePATs(s) ==
    LET c == inv[s]
    IN  /\ c.pc = "store"
        /\ pats' = removePAT(c.list, NoCache, c.index).pats
        /\ inv' = [inv EXCEPT ![s] = [c EXCEPT !.pc = "clear"]]
        /\ UNCHANGED patCache
        /\ RaceFrame

\* removePAT: await this.clearCache()
ClearAfterRemove(s) ==
    LET c == inv[s]
    IN  /\ c.pc = "clear"
        /\ patCache' = NoCache
        /\ inv' = [inv EXCEPT ![s] = [c EXCEPT !.ok = TRUE, !.pc = "done"]]
        /\ UNCHANGED pats
        /\ RaceFrame

RaceNext ==
    \E s \in 1..2 :
        \/ ReadPATs(s)
        \/ ReadCache(s)
        \/ AfterCached(s)
        \/ AfterLoop(s)
        \/ StorePATs(s)
        \/ ClearAfterRemove(s)

RaceSpec == RaceInit /\ [][RaceNext]_vars

\* ---------------------------------------------------------------------- C31
\* the stores after one call run alone
RunAlone(call, stores) ==
    IF call.op = "get"
    THEN [pats  |-> stores.pats,
          cache |-> getAuthHeaders(stores.pats, stores.cache, call.organization,
                                   hist.valid[call.organization]).cache]
    ELSE removePAT(stores.pats, stores.cache, call.index)

\* the cache after the two calls run one after the other, first the call a
InOrder(a, b) ==
    RunAlone(hist.calls[b], RunAlone(hist.calls[a], [pats |-> hist.pats, cache |-> hist.cache])).cache

\* C31: when two interleaved calls have both finished, the cache is the one
\* that some sequential order of the two calls produces
C31_CacheAsInSomeOrder ==
    (inv[1].pc = "done" /\ inv[2].pc = "done") => patCache \in {InOrder(1, 2), InOrder(2, 1)}


\* ------------------------------------------------------- the manager disposed
\* SyncManager.dispose: the timer of the handle held is cancelled
Dispose ==
    /\ initialized
    /\ ~hist.disposed
    /\ pending' = IF timer # null THEN clearTimeout(pending, timer) ELSE pending
    /\ timer' = null
    /\ initialized' = FALSE
    /\ hist' = [hist EXCEPT !.disposed = TRUE]
    /\ UNCHANGED <<config, files, ghSession, pats, startupTimer, status, gitProviders, patCache,
                   inv, runs, errorDialogs, queuedSyncs, lastRun, changesLeft>>

DisposeNext ==
    \/ Dispose
    \/ Next

DisposeSpec == Init /\ [][DisposeNext]_vars

\* ---------------------------------------------------------------------- C32
\* C32: once dispose() was called no scheduler timer is pending and no
\* syncNow() starts
C32_QuietAfterDispose ==
    [][hist.disposed => pending' = {} /\ runs' = runs]_vars


\* ------------------------------------- every awaited call of a sync completes
\* the steps of the invocation in slot s; each is the continuation of an
\* awaited provider call, file operation or notification
SlotStep(s) ==
    \/ RepoStart(s)
    \/ Notify(s)
    \/ Recheck(s)
    \/ Request(s)
    \/ TreeStep(s)
    \/ EnsureDirStep(s)
    \/ FetchStep(s)
    \/ CompareStep(s)
    \/ WriteStep(s)
    \/ Aggregate(s)
    \/ Outcome(s)
    \/ Caught(s)

\* the settings of the runs followed to their end: several repositories with
\* files to write, a missing GitHub session, a download that fails, and a
\* setting that makes syncNow throw
LiveInit ==
    /\ Init
    /\ config \in {ThreeRepositories, GitHubOnly, BrokenDownload, MalformedSetting}

\* the user runs promptitude.syncNow while no sync or one sync is running
SyncAgain ==
    /\ \A s, t \in Slots : Active(s) /\ Active(t) => s = t
    /\ ManualSync

\* the extension is activated and the user runs the command, again and again
LiveNext ==
    \/ Initialize
    \/ SyncAgain
    \/ \E s \in Slots : SlotStep(s)

\* the program under the proviso that no awaited call of a running sync
\* hangs: some running sync takes its next step. As at most MaxRuns syncs are
\* started, this lets every running sync take its next step.
LiveSpec == LiveInit /\ [][LiveNext]_vars /\ WF_vars(\E s \in Slots : SlotStep(s))

\* ---------------------------------------------------------------------- C33
\* C33: every syncNow() that has set the status to Syncing returns, so that
\* from some time on no sync is running (at most MaxRuns are started); when it
\* reports its outcome it has an outcome for every configured repository; and
\* when no sync is running any more the status is not Syncing: it is Success
\* or Error once a sync has reported its outcome, and the sync that returns
\* last leaves it at Success or Error
C33_SyncTerminates ==
    /\ <>[](\A s \in Slots : ~Active(s))
    /\ [][\A s \in Slots :
               Active(s) /\ (\A t \in Slots : inv'[t].pc = "idle") => status' \in {"success", "error"}]_vars
    /\ [](\A s \in Slots :
             inv[s].pc = "outcome" => Len(inv[s].results) = Len(inv[s].repoConfigs))
    /\ []((\A s \in Slots : ~Active(s)) =>
             /\ status # "syncing"
             /\ lastRun.finished => status \in {"success", "error"})

\* a sync over three repositories has returned, nothing is running and the
\* status is Success
C33_Witness ==
    /\ \A s \in Slots : ~Active(s)
    /\ lastRun.finished
    /\ status = "success"
    /\ hist.returned.via = "aggregated"
    /\ Len(config.repositories) = 3

\* ---------------------------------------------------------------------- C34
\* C34: a syncNow() called while sync is disabled returns success = false,
\* itemsUpdated = 0 and the error 'Sync disabled', and changes nothing else: no
\* invocation starts (no provider is contacted, no file is written), the
\* status bar, the settings, the credentials and the provider cache stay as
\* they are, and the scheduler timer is neither cleared nor armed (a timer
\* that made the call has fired, nothing more)
C34_DisabledSyncChangesNothing ==
    [][(runs' = runs + 1 /\ ~config.enabled) =>
          /\ hist'.returned = Result("disabled", FALSE, 0, <<"Sync disabled">>)
          /\ hist'.returns = hist.returns + 1
          /\ UNCHANGED <<inv, files, status, config, ghSession, pats, gitProviders, patCache,
                         errorDialogs, initialized, timer>>
          /\ pending' \subseteq pending
          /\ hist'.trigger # "timer" => pending' = pending
          /\ hist'.trigger = "timer" => Cardinality(pending \ pending') = 1]_vars

\* the command was run after sync was disabled: it returned 'Sync disabled',
\* and the status bar still shows the success of the sync before
C34_Witness ==
    /\ ~config.enabled
    /\ hist.trigger = "manual"
    /\ hist.returned = Result("disabled", FALSE, 0, <<"Sync disabled">>)
    /\ status = "success"
    /\ \A s \in Slots : ~Active(s)

\* ---------------------------------------------------------------------- C35
\* C35: when writeFileContent throws, the file is not written and not counted,
\* no error is recorded for the repository, and the loop goes on with the next
\* file; after the last file the repository is recorded as a success
C35_WriteFailureSkipsFile ==
    [][LET r == inv[1]
       IN  r.pc = "write" /\ WriteFails(LocalName(r))
           => /\ files' = files
              /\ Counted(inv'[1]) = r.itemsUpdated
              /\ inv'[1].errors = r.errors
              /\ IF r.j < Len(r.relevantFiles)
                 THEN /\ inv'[1].pc = "fetch"
                      /\ inv'[1].i = r.i
                      /\ inv'[1].j = r.j + 1
                      /\ inv'[1].relevantFiles = r.relevantFiles
                      /\ inv'[1].results = r.results
                 ELSE /\ inv'[1].pc = "loop"
                      /\ Len(inv'[1].results) = Len(r.results) + 1
                      /\ Last(inv'[1].results).repository = CurrentUrl(r)
                      /\ Last(inv'[1].results).success]_vars

\* the repository whose first file could not be written is done: that file is
\* as it was, the second file was written and is the one file counted, and the
\* repository is a success
C35_Witness ==
    /\ inv[1].pc = "loop"
    /\ CurrentUrl([inv[1] EXCEPT !.i = 1]) = GH5
    /\ inv[1].startFiles[<<"r", ".md">>] = NoFile
    /\ inv[1].startFiles[<<"x", ".md">>] = "B"
    /\ files = [inv[1].startFiles EXCEPT ![<<"x", ".md">>] = "A"]
    /\ Last(inv[1].results).success
    /\ Last(inv[1].results).itemsUpdated = 1
    /\ inv[1].errors = <<>>

\* ---------------------------------------------------------------------- C36
\* C36: a syncNow() that finds sync enabled and no repository configured
\* contacts no provider and writes no file: its loop ends at once with no
\* result; it sets the status to Success and shows the success notification
\* for 0 items; when it returns, the result is success = true, itemsUpdated = 0,
\* no error, and scheduleNextSync() has run
C36_EmptyListSucceeds ==
    [][\A s \in Slots :
          LET r == inv[s]
              t == inv'[s]
          IN  Active(s) /\ r.pc # "caught" /\ r.repoConfigs = <<>> /\ t.pc # r.pc
              => /\ UNCHANGED <<files, gitProviders, patCache, errorDialogs>>
                 /\ r.pc \in {"loop", "outcome"}
                 /\ r.results = <<>> /\ r.log = <<>> /\ r.fetched = {} /\ r.got = {}
                 /\ r.pc = "loop" =>
                       /\ t.pc = "outcome"
                       /\ status' = "success"
                       /\ t.shown = <<showSyncSuccess(0)>>
                 /\ r.pc = "outcome" =>
                       /\ t.pc = "idle"
                       /\ hist'.returned = Result("aggregated", TRUE, 0, <<>>)
                       /\ timer' = scheduleNextSync(config, timer, pending).timer
                       /\ pending' = scheduleNextSync(config, timer, pending).pending]_vars

\* a sync with no repository configured has returned success with 0 items, the
\* status is Success and the next sync is scheduled
C36_Witness ==
    /\ config.repositories = <<>>
    /\ config.enabled
    /\ hist.returned = Result("aggregated", TRUE, 0, <<>>)
    /\ hist.scheduled.by = "outcome"
    /\ status = "success"
    /\ pending # {}
    /\ files = [n \in FileNames |-> IF n = <<"keep", ".md">> THEN "L" ELSE NoFile]
    /\ \A s \in Slots : ~Active(s)

\* ----------------------------------- Azure DevOps URLs and the packed owner
\* the texts a URL is written with between two "/"; some hold a "|", one is empty
UrlParts == {<<"o">>, <<"p">>, <<"o", "|", "p">>, <<"|", "o">>, <<>>}

\* the end of the URL: nothing, ".git", or one "/"
Endings == {<<>>, <<".git">>, <<"/">>}

\* a URL of the modern or the legacy form written with these components; the
\* organization of a legacy URL is part of its host name
AzureUrl(format, organization, project, repo, ending) ==
    (IF format = "modern"
     THEN <<"https://", "dev.azure.com", "/">> \o organization \o <<"/">>
     ELSE <<"https://", "org.visualstudio.com", "/">>)
    \o project \o <<"/", "_git", "/">> \o repo \o ending

\* the URLs parsed, each with the components it was written with
UrlInputs ==
    { [url |-> AzureUrl("modern", organization, project, repo, ending),
       organization |-> organization, project |-> project,
       baseUrl |-> <<"https://", "dev.azure.com">>] :
         organization \in UrlParts, project \in UrlParts, repo \in {<<"r">>, <<>>}, ending \in Endings }
    \cup
    { [url |-> AzureUrl("legacy", <<"org">>, project, repo, ending),
       organization |-> <<"org">>, project |-> project,
       baseUrl |-> <<"https://", "org.visualstudio.com">>] :
         project \in UrlParts, repo \in {<<"r">>, <<>>}, ending \in Endings }

NotParsed == [ok |-> FALSE, owner |-> <<>>, repo |-> <<>>]

NoOwnerInfo == [ok |-> FALSE, organization |-> <<>>, project |-> <<>>, baseUrl |-> <<>>]

\* the history holds the URL with its components, what parseRepositoryUrl
\* returned for it, and what parseOwnerInfo made of the returned owner
UrlInit ==
    /\ Constructed
    /\ config = DefaultConfig
    /\ files = [n \in FileNames |-> NoFile]
    /\ ghSession = FALSE
    /\ pats = <<>>
    /\ \E input \in UrlInputs :
          hist = [input |-> input, stage |-> "url", parsed |-> NotParsed, info |-> NoOwnerInfo]

\* getRepositoryTree / getFileContent are handed the owner parseRepositoryUrl returned
ParseRepositoryUrl ==
    /\ hist.stage = "url"
    /\ hist' = [hist EXCEPT !.parsed = parseAzureUrl(hist.input.url),
                            !.stage = IF parseAzureUrl(hist.input.url).ok THEN "owner" ELSE "rejected"]
    /\ UNCHANGED patCache
    /\ UNCHANGED pats
    /\ PatFrame

\* getRepositoryTree / getFileContent: parseOwnerInfo(owner)
ParseOwnerInfo ==
    /\ hist.stage = "owner"
    /\ hist' = [hist EXCEPT !.info = parseOwnerInfo(hist.parsed.owner), !.stage = "done"]
    /\ UNCHANGED patCache
    /\ UNCHANGED pats
    /\ PatFrame

UrlNext ==
    \/ ParseRepositoryUrl
    \/ ParseOwnerInfo

UrlSpec == UrlInit /\ [][UrlNext]_vars

\* ---------------------------------------------------------------------- C37
\* C37: for every Azure DevOps URL parseRepositoryUrl accepts, parseOwnerInfo
\* applied to the returned owner yields the organization, the project and the
\* base URL the URL was written with; when the organization or the project
\* holds a "|", parseOwnerInfo fails with an error
C37_OwnerRoundTrip ==
    hist.stage = "done" =>
        IF Contains(hist.input.organization, "|") \/ Contains(hist.input.project, "|")
        THEN ~hist.info.ok
        ELSE /\ hist.info.ok
             /\ hist.info.organization = hist.input.organization
             /\ hist.info.project = hist.input.project
             /\ hist.info.baseUrl = hist.input.baseUrl

\* a legacy URL ending in ".git" was accepted and its owner unpacked
C37_Witness ==
    /\ hist.stage = "done"
    /\ hist.input.url = <<"https://", "org.visualstudio.com", "/", "p", "/", "_git", "/", "r", ".git">>
    /\ hist.parsed.repo = <<"r">>
    /\ hist.info = [ok |-> TRUE, organization |-> <<"org">>, project |-> <<"p">>,
                    baseUrl |-> <<"https://", "org.visualstudio.com">>]

\* ------------------------------------------- the prompt tree data provider
\* PromptTreeDataProvider on its own; hist holds its fields: isLoading, the
\* prompts map as path -> active flag, activePrompts, the loadPrompts() calls
\* in flight, the prompts directory it reads, and the history of how loads
\* ended and whether a call was skipped
PromptNames == {"a.md", "b.md"}

\* what the prompts directory holds under a name: nothing, a regular file, a
\* symlink, or an entry that stat() fails on
EntryKinds == {"absent", "file", "link", "broken"}

\* the prompts directory (present, missing, or unreadable) with its entries,
\* and the prompt files of the repository storage
PromptDisks ==
    [dir : {"present", "missing", "unreadable"},
     entry : [PromptNames -> EntryKinds],
     stored : {{}, {"a.md", "c.md"}}]

NoPrompts == [n \in {} |-> FALSE]

IdleLoad == [pc |-> "idle", todo |-> <<>>]

\* the constructor has called initialLoad(): the first loadPrompts() has set
\* isLoading and waits for directoryExists
PromptInit ==
    /\ Constructed
    /\ config = DefaultConfig
    /\ files = [n \in FileNames |-> NoFile]
    /\ ghSession = FALSE
    /\ pats = <<>>
    /\ \E disk \in PromptDisks :
          hist = [disk |-> disk, isLoading |-> TRUE, prompts |-> NoPrompts, activePrompts |-> {},
                  load |-> [s \in Slots |-> IF s = 1 THEN [pc |-> "exists", todo |-> <<>>]
                                            ELSE IdleLoad],
                  ended |-> {}, skipped |-> FALSE]

PromptFrame ==
    UNCHANGED <<config, files, ghSession, pats, initialized, timer, pending, startupTimer, status,
                gitProviders, patCache, inv, runs, errorDialogs, queuedSyncs, lastRun, changesLeft>>

\* a loadPrompts that gives the guard back only when the load went through
endLoadAfterTryOnly(h, s, how) ==
    [h EXCEPT !.isLoading = (how # "loaded"), !.load[s] = IdleLoad, !.ended = @ \cup {how}]

\* loadPrompts: the finally block, after the end of the try block, an early
\* return or the catch block
endLoad(h, s, how) ==
    [h EXCEPT !.isLoading = FALSE, !.load[s] = IdleLoad, !.ended = @ \cup {how}]

\* loadPrompts() is called (refreshAsync, ensurePromptsLoaded): it returns at
\* once while a load is in progress, else it sets the guard and clears the map
LoadPrompts(s) ==
    /\ hist.load[s].pc = "idle"
    /\ hist' = IF hist.isLoading
               THEN [hist EXCEPT !.skipped = TRUE]
               ELSE [hist EXCEPT !.isLoading = TRUE, !.prompts = NoPrompts,
                                 !.load[s] = [pc |-> "exists", todo |-> <<>>]]
    /\ PromptFrame

\* await directoryExists(promptsDir): an early return when it does not exist
DirectoryExists(s) ==
    /\ hist.load[s].pc = "exists"
    /\ hist' = IF hist.disk.dir = "missing" THEN endLoad(hist, s, "early")
               ELSE [hist EXCEPT !.load[s].pc = "readdir"]
    /\ PromptFrame

\* the names readDirectory returns
Listing(disk) == SelectSeq(<<"a.md", "b.md">>, LAMBDA n : disk.entry[n] # "absent")

\* await readDirectory(promptsDir): the listing, or an error the catch block logs
ReadDirectory(s) ==
    /\ hist.load[s].pc = "readdir"
    /\ hist' = IF hist.disk.dir = "unreadable" THEN endLoad(hist, s, "threw")
               ELSE [hist EXCEPT !.load[s] = [pc |-> "file", todo |-> Listing(hist.disk)]]
    /\ PromptFrame

\* createPromptInfo: null when stat() fails; active is whether the file is a
\* symlink, and the path of a symlink is added to activePrompts
createPromptInfo(h, name) ==
    IF h.disk.entry[name] = "broken" THEN h
    ELSE [h EXCEPT !.prompts = (name :> (h.disk.entry[name] = "link")) @@ @,
                   !.activePrompts = IF h.disk.entry[name] = "link" THEN @ \cup {name} ELSE @]

\* the loop over the workspace files: await createPromptInfo for the next file
CreatePromptInfo(s) ==
    /\ hist.load[s].pc = "file"
    /\ hist' = IF hist.load[s].todo = <<>>
               THEN [hist EXCEPT !.load[s].pc = "storage"]
               ELSE [createPromptInfo(hist, Head(hist.load[s].todo))
                        EXCEPT !.load[s].todo = Tail(@)]
    /\ PromptFrame

\* loadPromptsFromRepositoryStorage: a stored prompt not loaded from the
\* workspace is added as inactive
loadPromptsFromRepositoryStorage(h) ==
    [h EXCEPT !.prompts = [n \in (h.disk.stored \ DOMAIN @) |-> FALSE] @@ @]

\* await loadPromptsFromRepositoryStorage(), then the end of the try block
RepositoryStorage(s) ==
    /\ hist.load[s].pc = "storage"
    /\ hist' = endLoad(loadPromptsFromRepositoryStorage(hist), s, "loaded")
    /\ PromptFrame

\* toggleSelection(promptInfo) for a prompt of the map
ToggleSelection ==
    /\ \E path \in DOMAIN hist.prompts :
          hist' = IF hist.prompts[path]
                  THEN [hist EXCEPT !.activePrompts = @ \ {path}, !.prompts[path] = FALSE]
                  ELSE [hist EXCEPT !.activePrompts = @ \cup {path}, !.prompts[path] = TRUE]
    /\ PromptFrame

SelectAll ==
    /\ hist' = [hist EXCEPT !.activePrompts = @ \cup DOMAIN hist.prompts,
                            !.prompts = [path \in DOMAIN @ |-> TRUE]]
    /\ PromptFrame

DeselectAll ==
    /\ hist' = [hist EXCEPT !.activePrompts = {},
                            !.prompts = [path \in DOMAIN @ |-> FALSE]]
    /\ PromptFrame

PromptNext ==
    \/ \E s \in Slots : LoadPrompts(s)
    \/ \E s \in Slots : DirectoryExists(s)
    \/ \E s \in Slots : ReadDirectory(s)
    \/ \E s \in Slots : CreatePromptInfo(s)
    \/ \E s \in Slots : RepositoryStorage(s)
    \/ ToggleSelection
    \/ SelectAll
    \/ DeselectAll

PromptSpec == PromptInit /\ [][PromptNext]_vars

\* ---------------------------------------------------------------------- C38
\* C38: at most one body of loadPrompts runs at a time; isLoading is true
\* exactly while one runs, so it is false again after every load has ended,
\* by its last step, an early return or an error; a call made while isLoading
\* is true returns without touching the prompts map
C38_LoadsExclusive ==
    /\ [](/\ Cardinality({s \in Slots : hist.load[s].pc # "idle"}) <= 1
          /\ hist.isLoading <=> \E s \in Slots : hist.load[s].pc # "idle")
    /\ [][(hist.isLoading /\ \E s \in Slots : LoadPrompts(s))
             => /\ hist'.prompts = hist.prompts
                /\ hist'.activePrompts = hist.activePrompts
                /\ hist'.load = hist.load
                /\ hist'.isLoading]_vars

\* a call was skipped while a load ran, a load ended by an error, and the
\* guard is free again
C38_Witness ==
    /\ ~hist.isLoading
    /\ hist.skipped
    /\ "threw" \in hist.ended
    /\ \A s \in Slots : hist.load[s].pc = "idle"

\* ---------------------------------------------------------------------- C39
\* C39: whenever no load is in progress, activePrompts holds exactly the paths
\* of the loaded prompts whose active flag is true
C39_ActivePromptsInSync ==
    ~hist.isLoading => hist.activePrompts = {path \in DOMAIN hist.prompts : hist.prompts[path]}

====
